---- MODULE Spec2Model ----
(***************************************************************************)
(* A model of pdf-dost's transformation engine: PDFController and          *)
(* PDFService (merge, compress, split).  The pdf-lib primitives (load,     *)
(* copyPages, save) are the environment: each call's outcome is a          *)
(* nondeterministic choice among the outcomes the library can produce.     *)
(* Sizes are counted in whole megabytes; a page is <<document, index>>.    *)
(***************************************************************************)
EXTENDS Integers, Sequences, FiniteSets, TLC

\* ------------------------------------------------------------------ bounds

\* Largest number of files in one merge request of the model.
MaxDocs == 2
\* Largest total number of pages over the inputs of one merge request.
MaxTotalPages == 7
\* Largest number of copyPages calls that throw during one merge request.
MaxFaults == 2
\* Largest number of defects (failed re-load, page-count drift, missing
\* marker) in the bytes one save call produces.
MaxDefects == 1
\* Largest size (in size units) of the bytes a compress save call produces.
MaxSize == 3
\* Largest output size drawn when the four tiers are compared on one document.
MaxTierSize == 2
\* Largest page count of the document of a split request.
MaxSplitPages == 5
\* Longest 'pages' list of a split request.
MaxPagesList == 3
\* Longest 'ranges' list of a split request.
MaxRangesList == 2

\* Longest template text, in pieces (see Pieces).
MaxTextLen == 5
\* Largest page count of the document a template is expanded for.
MaxTemplatePages == 2

\* Largest page count of the document of a header/footer request.
MaxHeaderFooterPages == 3

\* Largest page count of the document of a watermark request.
MaxWatermarkPages == 5

\* Largest page count of the document of a compress request.
MaxCompressPages == 2

\* Largest page count of an upload of the two concurrent merge requests.
MaxConcurrentPages == 2
\* Number of files a user of MergeEditor can choose from.
MaxPreviewFiles == 3
\* Largest number of preview fetches MergeEditor starts.
MaxPreviews == 3

\* Longest byte sequence given to the validation, in blocks.
MaxBlocks == 3

\* The length of the trailing slice searched for the end-of-file marker.
TrailerBytes == 1024

\* Upload sizes (MB) drawn for a merge input: one per batch-size class, none
\* above the upload middleware's per-file limit.
SizeChoicesMB == {10, 50, 250}

\* ----------------------------------------------------------------- helpers

Range(s) == {s[k] : k \in DOMAIN s}

RECURSIVE SumSeq(_)
SumSeq(s) == IF s = <<>> THEN 0 ELSE Head(s) + SumSeq(Tail(s))

Min(a, b) == IF a < b THEN a ELSE b

Max(a, b) == IF a > b THEN a ELSE b

\* Sequences over S of length lo..hi.
SeqsOf(S, lo, hi) == UNION {[1..k -> S] : k \in lo..hi}

\* ------------------------------------------------------------------- state

VARIABLES
    \* ---- merge request (PDFController.mergePDFs -> PDFService.mergePDFs)
    mergePc,          \* position of the request
    pdfBuffers,       \* req.files: the size in MB of each uploaded file
    pageCounts,       \* getPageCount() of each input loaded by mergePDFs so far
    mergeI,           \* the loop index i (1-based) of the document in hand
    pageStart,        \* first page index of the batch in hand
    singlePageIdx,    \* page index of the individual retry in hand
    allCopiedPages,   \* pages copied from the document in hand
    mergedPdf,        \* page sequence of the accumulating output document
    savedPdf,         \* the bytes mergedPdf.save() produced
    mergeRes,         \* the HTTP response
    \* history of the merge request, read by the properties only
    loadCount,        \* PDFDocument.load calls made on input files
    sizeChecked,      \* the aggregate-size check has passed
    copiedOk,         \* pages whose copyPages call (batch or single) returned
    skippedPages,     \* pages whose batch copy and individual retry both threw
    faults,           \* copyPages calls that threw
    mergeError,       \* the error caught by the catch block of the input loop
    loadMs,           \* how long the pending timed PDFDocument.load takes (0: none pending)
    mergedOutline     \* the outline (bookmark) entries of mergedPdf

VARIABLES
    \* ---- compress request (PDFController.compressPDF -> PDFService.compressPDF)
    compPc,           \* position of the request
    compressionLevel, \* compressionData.compressionLevel
    finalDoc,         \* "pdfDoc" (the loaded document) or "fresh" (the rebuilt one)
    compPageCount,    \* pdfDoc.getPages().length (0: not loaded)
    freshPages,       \* the source page indices added to the fresh document, in order
    altIdx,           \* index into alternativeSettings of the attempt in hand
    bestCompressed,   \* smallest output so far (NoBytes: null, bestSize Infinity)
    bestSettings,     \* the settings that produced bestCompressed
    compRes,          \* the HTTP response
    \* history of the compress request, read by the properties only
    saveLog           \* every save made: its settings and what it produced

VARIABLES
    \* ---- the four tiers applied to one document
    tierOutputs,      \* the size pdf-lib produces per document graph and settings
    tierChosen        \* size of the output compressPDF chose, per tier done so far

VARIABLES
    \* ---- split request (PDFController.splitPDF -> PDFService.splitPDF)
    splitPc,          \* position of the request
    totalPages,       \* sourcePdf.getPageCount()
    splitData,        \* the parsed splitData (Malformed: not valid JSON)
    splitI,           \* the loop variable i of the mode's loop
    partNumber,       \* partNumber of the 'every' loop
    results,          \* the results array
    splitRes          \* the HTTP response

VARIABLES
    \* ---- the configuration fields of the request bodies, as received
    mergeData,        \* req.body.mergeData (Malformed: not valid JSON)
    compressionData   \* req.body.compressionData (Malformed: not valid JSON)

VARIABLES
    \* ---- one call of processTemplate
    templateArgs,     \* the arguments: text, pageNum, totalPages
    processedText     \* [text |-> the string returned] (NoBytes before the return)

VARIABLES
    \* ---- header/footer request (PDFController.processPDF -> addHeaderFooterToPDF)
    hfPc,             \* position of the request
    hfPageCount,      \* pages.length of the uploaded document
    headerFooterData, \* the parsed headerFooterData (Malformed: not valid JSON)
    hfDrawn,          \* per page, the drawing operations made on it, in order
    hfRes             \* the HTTP response

VARIABLES
    \* ---- watermark request (PDFController.addWatermark -> addWatermarkToPDF)
    wmPc,             \* position of the request
    wmPageCount,      \* pages.length of the uploaded document
    watermarkData,    \* the parsed watermarkData (Malformed: not valid JSON)
    wmDrawn,          \* per page, the drawText calls made on it, in order
    wmRes             \* the HTTP response

VARIABLES
    \* ---- validation of given bytes (validatePDFStructure, merge validation)
    valBytes,         \* the bytes, as a sequence of blocks (see Blocks)
    valReload,        \* what PDFDocument.load makes of the bytes
    valResult         \* which validation ran and the failure it reported

VARIABLES
    \* ---- compression preview (getCompressionInfo)
    estBuffer,        \* pdfBuffer: the counts the estimate takes from its content
    estInfo           \* the object getCompressionInfo returned

VARIABLES
    \* ---- client, MergeEditor component
    selectedFiles,    \* the selectedFiles state: the chosen files in order
    previewData,      \* the previewData state (NoBytes: null)
    pending,          \* the preview fetches that have not settled yet
    previewsSent      \* how many preview fetches were started

VARIABLES
    \* ---- two merge requests served concurrently, each with its own locals
    reqFiles,         \* per request, req.files: what each upload holds
    reqPc,            \* per request, the suspension point it waits at
    reqI,             \* per request, the loop index i (1-based)
    reqDoc,           \* per request, the pages of its mergedPdf
    reqRes,           \* per request, the HTTP response
    tempDir           \* the server's temp folder: debug file name -> bytes

mergeVars == <<mergePc, pdfBuffers, pageCounts, mergeI, pageStart, singlePageIdx,
               allCopiedPages, mergedPdf, savedPdf, mergeRes, loadCount,
               sizeChecked, copiedOk, skippedPages, faults, mergeError,
               loadMs, mergedOutline>>

compVars == <<compPc, compressionLevel, finalDoc, compPageCount, freshPages, altIdx, bestCompressed,
              bestSettings, compRes, saveLog>>

tierVars == <<tierOutputs, tierChosen>>

splitVars == <<splitPc, totalPages, splitData, splitI, partNumber, results, splitRes>>

bodyVars == <<mergeData, compressionData>>

tplVars == <<templateArgs, processedText>>

valVars == <<valBytes, valReload, valResult>>

\* The state of the operations that are not a request of the server's PDF
\* routes.
estVars == <<estBuffer, estInfo>>

previewVars == <<selectedFiles, previewData, pending, previewsSent>>

concVars == <<reqFiles, reqPc, reqI, reqDoc, reqRes, tempDir>>

otherVars == <<valVars, estVars, previewVars, concVars>>

hfVars == <<hfPc, hfPageCount, headerFooterData, hfDrawn, hfRes>>

wmVars == <<wmPc, wmPageCount, watermarkData, wmDrawn, wmRes>>

\* The state of the page-marking operations and of the request bodies.
markVars == <<bodyVars, tplVars, hfVars, wmVars, otherVars>>

vars == <<mergeVars, compVars, tierVars, splitVars, markVars>>

notMerge == <<compVars, tierVars, splitVars, markVars>>

notCompress == <<mergeVars, tierVars, splitVars, markVars>>

notTiers == <<mergeVars, compVars, splitVars, markVars>>

notSplit == <<mergeVars, compVars, tierVars, markVars>>

\* ------------------------------------------------------------------- bytes

NoBytes == [none |-> TRUE]

NoResponse == [status |-> 0, error |-> "", body |-> NoBytes]

\* What a serialized document is to the checks made on it: the pages it was
\* saved from, whether pdf-lib can load it again and how many pages it then
\* reports (pages + countDelta), and the four byte-level markers.
SavedBytes(pages) ==
    [pages : {pages}, reload : BOOLEAN, countDelta : {0, 1},
     header : BOOLEAN, eof : BOOLEAN, catalog : BOOLEAN, pagesMarker : BOOLEAN]

B2N(b) == IF b THEN 0 ELSE 1

Defects(pdfBytes) ==
    B2N(pdfBytes.reload) + pdfBytes.countDelta + B2N(pdfBytes.header)
    + B2N(pdfBytes.eof) + B2N(pdfBytes.catalog) + B2N(pdfBytes.pagesMarker)

\* The outcomes of one save call within the defect bound.
SaveOutcomes(pages) == {b \in SavedBytes(pages) : Defects(b) <= MaxDefects}

\* PDFService.validatePDFStructure: "ok", or the message of the first check
\* that fails.
validatePDFStructure(pdfBytes) ==
    IF ~pdfBytes.header THEN "Invalid PDF header"
    ELSE IF ~pdfBytes.eof THEN "Invalid PDF trailer - missing %%EOF"
    ELSE IF ~pdfBytes.catalog THEN "Missing PDF catalog"
    ELSE IF ~pdfBytes.pagesMarker THEN "Missing PDF pages structure"
    ELSE "ok"

\* The validation block without the page-count comparison.
MergeValidationErrorNoCount(pdfBytes, expectedPages) ==
    IF ~pdfBytes.reload THEN "load"
    ELSE IF validatePDFStructure(pdfBytes) # "ok" THEN validatePDFStructure(pdfBytes)
    ELSE "ok"

\* The validation block of mergePDFs: re-load (strict), structure, page count.
MergeValidationError(pdfBytes, expectedPages) ==
    IF ~pdfBytes.reload THEN "load"
    ELSE IF validatePDFStructure(pdfBytes) # "ok" THEN validatePDFStructure(pdfBytes)
    ELSE IF Len(pdfBytes.pages) + pdfBytes.countDelta # expectedPages THEN "Page count mismatch"
    ELSE "ok"

\* ------------------------------------------------------------------- merge

\* Copy batch size chosen from the input's size in MB.
batchSize(bufferSizeMB) ==
    IF bufferSizeMB > 100 THEN 5 ELSE IF bufferSizeMB > 20 THEN 10 ELSE 20

\* The aggregate-size ceiling of mergePDFs.
totalSizeExceeds(buffers) == SumSeq(buffers) > 500

\* pageIndices of the batch starting at start.
BatchIndices(start, size, pageCount) == start .. (Min(start + size, pageCount) - 1)

\* The pages <<doc, idx>> for idx over lo..hi, ascending.
PagesOf(doc, lo, hi) == [k \in 1..(hi - lo + 1) |-> <<doc, lo + k - 1>>]

MergeFail(status, error) ==
    /\ mergePc' = "responded"
    /\ mergeRes' = [status |-> status, error |-> error, body |-> NoBytes]

\* The request variables of an operation that is not running.
MergeIdle ==
    /\ mergePc = "idle"
    /\ pdfBuffers = <<>>
    /\ pageCounts = <<>>
    /\ mergeI = 1
    /\ pageStart = 0
    /\ singlePageIdx = 0
    /\ allCopiedPages = <<>>
    /\ mergedPdf = <<>>
    /\ savedPdf = NoBytes
    /\ mergeRes = NoResponse
    /\ loadCount = 0
    /\ sizeChecked = FALSE
    /\ copiedOk = {}
    /\ skippedPages = {}
    /\ faults = 0
    /\ mergeError = NoBytes
    /\ loadMs = 0
    /\ mergedOutline = <<>>

CompressIdle ==
    /\ compPc = "idle"
    /\ compressionLevel = "medium"
    /\ finalDoc = "pdfDoc"
    /\ compPageCount = 0
    /\ freshPages = <<>>
    /\ altIdx = 1
    /\ bestCompressed = NoBytes
    /\ bestSettings = NoBytes
    /\ compRes = NoResponse
    /\ saveLog = <<>>

TiersIdle ==
    /\ tierOutputs = <<>>
    /\ tierChosen = <<>>

SplitIdle ==
    /\ splitPc = "idle"
    /\ totalPages = 0
    /\ splitData = NoBytes
    /\ splitI = 0
    /\ partNumber = 1
    /\ results = <<>>
    /\ splitRes = NoResponse

ValidateIdle ==
    /\ valBytes = <<>>
    /\ valReload = NoBytes
    /\ valResult = NoBytes

EstimateIdle ==
    /\ estBuffer = NoBytes
    /\ estInfo = NoBytes

PreviewIdle ==
    /\ selectedFiles = <<>>
    /\ previewData = NoBytes
    /\ pending = {}
    /\ previewsSent = 0

ConcurrentIdle ==
    /\ reqFiles = <<>>
    /\ reqPc = <<>>
    /\ reqI = <<>>
    /\ reqDoc = <<>>
    /\ reqRes = <<>>
    /\ tempDir = <<>>

OtherIdle == ValidateIdle /\ EstimateIdle /\ PreviewIdle /\ ConcurrentIdle

TemplateIdle ==
    /\ templateArgs = NoBytes
    /\ processedText = NoBytes

HeaderFooterIdle ==
    /\ hfPc = "idle"
    /\ hfPageCount = 0
    /\ headerFooterData = NoBytes
    /\ hfDrawn = <<>>
    /\ hfRes = NoResponse

WatermarkIdle ==
    /\ wmPc = "idle"
    /\ wmPageCount = 0
    /\ watermarkData = NoBytes
    /\ wmDrawn = <<>>
    /\ wmRes = NoResponse

MarksIdle == TemplateIdle /\ HeaderFooterIdle /\ WatermarkIdle /\ OtherIdle

\* JSON.parse threw on the configuration field.
Malformed == [malformed |-> TRUE]

\* The configuration object {}: every field takes its default.
EmptyConfig == [defaults |-> TRUE]

\* 'try { data = JSON.parse(field) } catch { data = {} }' of the merge and
\* compress controllers.
ParseOrDefaults(field) == IF field = Malformed THEN EmptyConfig ELSE field

\* No merge (compress) request: no configuration field.
BodyIdle == mergeData = NoBytes /\ compressionData = NoBytes

MergeStart ==
    /\ mergePc = "controller"
    /\ pdfBuffers \in SeqsOf(SizeChoicesMB, 1, MaxDocs)
    /\ pageCounts = <<>>
    /\ mergeI = 1
    /\ pageStart = 0
    /\ singlePageIdx = 0
    /\ allCopiedPages = <<>>
    /\ mergedPdf = <<>>
    /\ savedPdf = NoBytes
    /\ mergeRes = NoResponse
    /\ loadCount = 0
    /\ sizeChecked = FALSE
    /\ copiedOk = {}
    /\ skippedPages = {}
    /\ faults = 0
    /\ mergeError = NoBytes
    /\ loadMs = 0
    /\ mergedOutline = <<>>

\* PDFController.mergePDFs up to the call of getPDFMergeInfo: the file count.
MergeReceive ==
    /\ mergePc = "controller"
    /\ IF Len(pdfBuffers) < 2
       THEN MergeFail(400, "Insufficient files")
       ELSE mergePc' = "info" /\ UNCHANGED mergeRes
    /\ UNCHANGED notMerge
    /\ UNCHANGED <<mergeError, loadMs, mergedOutline>>
    /\ UNCHANGED <<pdfBuffers, pageCounts, mergeI, pageStart, singlePageIdx,
                   allCopiedPages, mergedPdf, savedPdf, loadCount, sizeChecked,
                   copiedOk, skippedPages, faults>>

\* One iteration of getPDFMergeInfo: load input mergeI and count its pages.
MergeInfoLoad ==
    /\ mergePc = "info"
    /\ loadCount' = loadCount + 1
    /\ \/ /\ mergeI < Len(pdfBuffers)
          /\ mergeI' = mergeI + 1
          /\ UNCHANGED <<mergePc, mergeRes>>
       \/ /\ mergeI = Len(pdfBuffers)
          /\ mergeI' = 1
          /\ mergePc' = "service"
          /\ UNCHANGED mergeRes
       \/ /\ MergeFail(500, "Failed to analyze PDFs")
          /\ UNCHANGED mergeI
    /\ UNCHANGED notMerge
    /\ UNCHANGED <<mergeError, loadMs, mergedOutline>>
    /\ UNCHANGED <<pdfBuffers, pageCounts, pageStart, singlePageIdx,
                   allCopiedPages, mergedPdf, savedPdf, sizeChecked,
                   copiedOk, skippedPages, faults>>

\* PDFService.mergePDFs up to the loop: the count and aggregate-size checks.
MergeSizeCheck ==
    /\ mergePc = "service"
    /\ IF Len(pdfBuffers) = 0 THEN
           MergeFail(500, "No PDF files provided for merging") /\ UNCHANGED sizeChecked
       ELSE IF Len(pdfBuffers) = 1 THEN
           MergeFail(500, "At least 2 PDF files are required for merging")
           /\ UNCHANGED sizeChecked
       ELSE IF totalSizeExceeds(pdfBuffers) THEN
           MergeFail(500, "exceeds 500MB limit") /\ UNCHANGED sizeChecked
       ELSE
           mergePc' = "load" /\ sizeChecked' = TRUE /\ UNCHANGED mergeRes
    /\ UNCHANGED notMerge
    /\ UNCHANGED <<mergeError, loadMs, mergedOutline>>
    /\ UNCHANGED <<pdfBuffers, pageCounts, mergeI, pageStart, singlePageIdx,
                   allCopiedPages, mergedPdf, savedPdf, loadCount,
                   copiedOk, skippedPages, faults>>

\* 'timeoutMs = Math.max(30000, bufferSizeMB * 1000)'.
timeoutMs(bufferSizeMB) == Max(30000, bufferSizeMB * 1000)

\* How long (ms) a PDFDocument.load call can take.
LoadTimes == {20000, 40000, 300000}

\* An error thrown inside the try block of the input loop; a timeout error
\* names the timeout that elapsed.
Thrown(message, afterMs) == [message |-> message, afterMs |-> afterMs]

\* 'loadPromise = PDFDocument.load(pdfBuffers[i], loadOptions)': the load
\* of input mergeI starts and will take one of LoadTimes.
MergeLoadStart ==
    /\ mergePc = "load"
    /\ mergePc' = "race"
    /\ loadCount' = loadCount + 1
    /\ loadMs' \in LoadTimes
    /\ UNCHANGED notMerge
    /\ UNCHANGED <<mergeError, mergedOutline>>
    /\ UNCHANGED <<pdfBuffers, pageCounts, mergeI, pageStart, singlePageIdx,
                   allCopiedPages, mergedPdf, savedPdf, mergeRes, sizeChecked,
                   copiedOk, skippedPages, faults>>

\* The Promise.race of the load with its timer: the timer's rejection wins
\* when the load takes longer than timeoutMs (the load stays pending),
\* otherwise the load settles with a document or with its own error.
MergeLoad ==
    /\ mergePc = "race"
    /\ IF loadMs > timeoutMs(pdfBuffers[mergeI])
       THEN /\ mergeError' = Thrown("loading timeout", timeoutMs(pdfBuffers[mergeI]))
            /\ mergePc' = "catch"
            /\ UNCHANGED <<pageCounts, pageStart, allCopiedPages, loadMs>>
       ELSE /\ loadMs' = 0
            /\ \/ \E pageCount \in 1..(MaxTotalPages - SumSeq(pageCounts)
                                          - (Len(pdfBuffers) - mergeI)) :
                    /\ pageCounts' = Append(pageCounts, pageCount)
                    /\ mergePc' = "copy"
                    /\ pageStart' = 0
                    /\ allCopiedPages' = <<>>
                    /\ UNCHANGED mergeError
               \/ \E message \in {"Invalid PDF", "other"} :
                    /\ mergeError' = Thrown(message, 0)
                    /\ mergePc' = "catch"
                    /\ UNCHANGED <<pageCounts, pageStart, allCopiedPages>>
    /\ UNCHANGED notMerge
    /\ UNCHANGED <<mergedOutline, loadCount>>
    /\ UNCHANGED <<pdfBuffers, mergeI, singlePageIdx, mergedPdf, savedPdf, mergeRes,
                   sizeChecked, copiedOk, skippedPages, faults>>

\* The catch block of the input loop with the timeout case left out.
MergeCatchNoTimeoutCase ==
    /\ mergePc = "catch"
    /\ IF mergeError.message = "Invalid PDF"
       THEN MergeFail(500, "corrupted or invalid")
       ELSE MergeFail(500, "Failed to process PDF file")
    /\ UNCHANGED notMerge
    /\ UNCHANGED <<mergeError, loadMs, mergedOutline>>
    /\ UNCHANGED <<pdfBuffers, pageCounts, mergeI, pageStart, singlePageIdx,
                   allCopiedPages, mergedPdf, savedPdf, loadCount, sizeChecked,
                   copiedOk, skippedPages, faults>>

\* The catch block of the input loop: the error is classified by its message
\* and rethrown, the service rethrows it and the controller answers 500.
MergeCatch ==
    /\ mergePc = "catch"
    /\ IF mergeError.message = "loading timeout"
       THEN MergeFail(500, "too large or complex")
       ELSE IF mergeError.message = "Invalid PDF"
       THEN MergeFail(500, "corrupted or invalid")
       ELSE MergeFail(500, "Failed to process PDF file")
    /\ UNCHANGED notMerge
    /\ UNCHANGED <<mergeError, loadMs, mergedOutline>>
    /\ UNCHANGED <<pdfBuffers, pageCounts, mergeI, pageStart, singlePageIdx,
                   allCopiedPages, mergedPdf, savedPdf, loadCount, sizeChecked,
                   copiedOk, skippedPages, faults>>

\* The end of one batch with the copied pages inserted at the front of the
\* output instead of added at its end.
AfterBatchPrepend(copied) ==
    LET next == pageStart + batchSize(pdfBuffers[mergeI]) IN
    IF next < pageCounts[mergeI]
    THEN /\ pageStart' = next
         /\ allCopiedPages' = copied
         /\ mergePc' = "copy"
         /\ UNCHANGED <<mergedPdf, mergeI>>
    ELSE /\ mergedPdf' = copied \o mergedPdf
         /\ allCopiedPages' = <<>>
         /\ pageStart' = 0
         /\ mergeI' = mergeI + 1
         /\ mergePc' = IF mergeI < Len(pdfBuffers) THEN "load" ELSE "save"

\* The end of one batch: the next batch, or, after the last one, addPage of
\* every copied page and the next input (or the save).
AfterBatch(copied) ==
    LET next == pageStart + batchSize(pdfBuffers[mergeI]) IN
    IF next < pageCounts[mergeI]
    THEN /\ pageStart' = next
         /\ allCopiedPages' = copied
         /\ mergePc' = "copy"
         /\ UNCHANGED <<mergedPdf, mergeI>>
    ELSE /\ mergedPdf' = mergedPdf \o copied
         /\ allCopiedPages' = <<>>
         /\ pageStart' = 0
         /\ mergeI' = mergeI + 1
         /\ mergePc' = IF mergeI < Len(pdfBuffers) THEN "load" ELSE "save"

\* mergedPdf.copyPages(currentPdf, pageIndices) for the batch in hand.
MergeCopyBatch ==
    /\ mergePc = "copy"
    /\ LET idx == BatchIndices(pageStart, batchSize(pdfBuffers[mergeI]), pageCounts[mergeI])
           lo == pageStart
           hi == Min(pageStart + batchSize(pdfBuffers[mergeI]), pageCounts[mergeI]) - 1
       IN \/ /\ copiedOk' = copiedOk \cup {<<mergeI, p>> : p \in idx}
             /\ AfterBatch(allCopiedPages \o PagesOf(mergeI, lo, hi))
             /\ UNCHANGED <<faults, singlePageIdx>>
          \/ /\ faults < MaxFaults
             /\ faults' = faults + 1
             /\ mergePc' = "retry"
             /\ singlePageIdx' = pageStart
             /\ UNCHANGED <<copiedOk, allCopiedPages, mergedPdf, mergeI, pageStart>>
    /\ UNCHANGED notMerge
    /\ UNCHANGED <<mergeError, loadMs, mergedOutline>>
    /\ UNCHANGED <<pdfBuffers, pageCounts, savedPdf, mergeRes, loadCount,
                   sizeChecked, skippedPages>>

\* After the individual retry of singlePageIdx: the next page of the batch or
\* the end of the batch.
AfterSingle(copied) ==
    IF singlePageIdx + 1 < Min(pageStart + batchSize(pdfBuffers[mergeI]), pageCounts[mergeI])
    THEN /\ singlePageIdx' = singlePageIdx + 1
         /\ allCopiedPages' = copied
         /\ UNCHANGED <<mergePc, mergedPdf, mergeI, pageStart>>
    ELSE /\ singlePageIdx' = 0
         /\ AfterBatch(copied)

\* The individual retry with its failure rethrown instead of logged.
MergeCopySingleAborts ==
    /\ mergePc = "retry"
    /\ \/ /\ copiedOk' = copiedOk \cup {<<mergeI, singlePageIdx>>}
          /\ AfterSingle(Append(allCopiedPages, <<mergeI, singlePageIdx>>))
          /\ UNCHANGED <<faults, skippedPages, mergeRes>>
       \/ /\ faults < MaxFaults
          /\ faults' = faults + 1
          /\ skippedPages' = skippedPages \cup {<<mergeI, singlePageIdx>>}
          /\ MergeFail(500, "Failed to process PDF file")
          /\ UNCHANGED <<copiedOk, singlePageIdx, allCopiedPages, mergedPdf, mergeI,
                         pageStart>>
    /\ UNCHANGED notMerge
    /\ UNCHANGED <<mergeError, loadMs, mergedOutline>>
    /\ UNCHANGED <<pdfBuffers, pageCounts, savedPdf, loadCount, sizeChecked>>

\* mergedPdf.copyPages(currentPdf, [singlePageIdx]) after a failed batch.
MergeCopySingle ==
    /\ mergePc = "retry"
    /\ \/ /\ copiedOk' = copiedOk \cup {<<mergeI, singlePageIdx>>}
          /\ AfterSingle(Append(allCopiedPages, <<mergeI, singlePageIdx>>))
          /\ UNCHANGED <<faults, skippedPages>>
       \/ /\ faults < MaxFaults
          /\ faults' = faults + 1
          /\ skippedPages' = skippedPages \cup {<<mergeI, singlePageIdx>>}
          /\ AfterSingle(allCopiedPages)
          /\ UNCHANGED copiedOk
    /\ UNCHANGED notMerge
    /\ UNCHANGED <<mergeError, loadMs, mergedOutline>>
    /\ UNCHANGED <<pdfBuffers, pageCounts, savedPdf, mergeRes, loadCount, sizeChecked>>

\* mergedPdf.save with the compatibility profile.
\* 'if (mergeData.addBookmarks)'.
AddBookmarksOf(data) == "addBookmarks" \in DOMAIN data /\ data.addBookmarks

\* addBookmarksToMergedPDF: every input is loaded again and the title and
\* page of its bookmark are logged; nothing is written to mergedPdf.
addBookmarksToMergedPDF(outline, counts) == outline

\* The bookmark step when asked for, then mergedPdf.save.
MergeSave ==
    /\ mergePc = "save"
    /\ IF AddBookmarksOf(ParseOrDefaults(mergeData))
       THEN /\ mergedOutline' = addBookmarksToMergedPDF(mergedOutline, pageCounts)
            /\ loadCount' = loadCount + Len(pdfBuffers)
       ELSE UNCHANGED <<mergedOutline, loadCount>>
    /\ \/ /\ savedPdf' \in SaveOutcomes(mergedPdf)
          /\ mergePc' = "validate"
          /\ UNCHANGED mergeRes
       \/ /\ MergeFail(500, "PDF merge failed")
          /\ UNCHANGED savedPdf
    /\ UNCHANGED notMerge
    /\ UNCHANGED <<mergeError, loadMs>>
    /\ UNCHANGED <<pdfBuffers, pageCounts, mergeI, pageStart, singlePageIdx,
                   allCopiedPages, mergedPdf, sizeChecked,
                   copiedOk, skippedPages, faults>>

\* The validation block of mergePDFs, then the controller's buffer checks and
\* the response.
MergeValidate ==
    /\ mergePc = "validate"
    /\ mergePc' = "responded"
    /\ mergeRes' =
         IF MergeValidationError(savedPdf, Len(mergedPdf)) # "ok"
         THEN [status |-> 500, error |-> "Generated PDF is corrupted and cannot be opened",
               body |-> NoBytes]
         ELSE IF ~savedPdf.header
         THEN [status |-> 500, error |-> "Merged PDF buffer does not contain valid PDF header",
               body |-> NoBytes]
         ELSE [status |-> 200, error |-> "", body |-> savedPdf]
    /\ UNCHANGED notMerge
    /\ UNCHANGED <<mergeError, loadMs, mergedOutline>>
    /\ UNCHANGED <<pdfBuffers, pageCounts, mergeI, pageStart, singlePageIdx,
                   allCopiedPages, mergedPdf, savedPdf, loadCount, sizeChecked,
                   copiedOk, skippedPages, faults>>

\* A merge request whose mergeData field is data.
MergeWith(data) ==
    /\ MergeStart /\ mergeData = data /\ compressionData = NoBytes
    /\ CompressIdle /\ TiersIdle /\ SplitIdle /\ MarksIdle

MergeInit == MergeWith(EmptyConfig)

\* A merge request whose mergeData is {"addBookmarks": true}.
MergeBookmarksInit == MergeWith([addBookmarks |-> TRUE])

MergeNext ==
    \/ MergeReceive
    \/ MergeInfoLoad
    \/ MergeSizeCheck
    \/ MergeLoadStart
    \/ MergeLoad
    \/ MergeCatch
    \/ MergeCopyBatch
    \/ MergeCopySingle
    \/ MergeSave
    \/ MergeValidate

SpecMerge == MergeInit /\ [][MergeNext]_vars

SpecMergeBookmarks == MergeBookmarksInit /\ [][MergeNext]_vars

\* ---------------------------------------------------------------- compress

\* Save settings are <<useObjectStreams, objectsPerTick>>; addDefaultPage,
\* updateFieldAppearances and compress are the same in every profile.
getCompressionSettings(level) ==
    CASE level = "low" -> <<FALSE, 100>>
      [] level = "medium" -> <<TRUE, 25>>
      [] level = "high" -> <<TRUE, 10>>
      [] level = "maximum" -> <<FALSE, 1>>
      [] OTHER -> <<TRUE, 25>>

alternativeSettings == << <<FALSE, 5>>, <<TRUE, 1>>, <<FALSE, 1>> >>

basicSettings == <<FALSE, 50>>

CompressionLevels == {"low", "medium", "high", "maximum"}

TriesAlternatives(level) == level = "high" \/ level = "maximum"

\* What one save call produces: "threw", or bytes of some size that pdf-lib
\* can or cannot load again and that start or do not start with %PDF-.
CompressedBytes == [size : 1..MaxSize, reload : BOOLEAN, header : BOOLEAN]

Threw == [threw |-> TRUE]

\* 'if (result.length < bestSize)' with bestSize Infinity while best is null.
IsBetter(result, best) == best = NoBytes \/ result.size < best.size

\* The saves already made from document doc with settings.
LoggedSaves(log, doc, settings) ==
    {k \in DOMAIN log : log[k].doc = doc /\ log[k].settings = settings}

\* save is a function of the document graph and the settings: a repeated
\* save gives what the first one gave.
SaveResults(log, doc, settings) ==
    IF LoggedSaves(log, doc, settings) = {}
    THEN CompressedBytes \cup {Threw}
    ELSE {log[k].out : k \in LoggedSaves(log, doc, settings)}

CompFail(status, error) ==
    /\ compPc' = "responded"
    /\ compRes' = [status |-> status, error |-> error, body |-> NoBytes]

CompressStart ==
    /\ compPc = "load"
    /\ compressionLevel \in CompressionLevels \cup {"other"}
    /\ finalDoc = "pdfDoc"
    /\ compPageCount = 0
    /\ freshPages = <<>>
    /\ altIdx = 1
    /\ bestCompressed = NoBytes
    /\ bestSettings = NoBytes
    /\ compRes = NoResponse
    /\ saveLog = <<>>

\* The page references copied the wrong way round.
pageRefsReversed(count) == [k \in 1..count |-> count - k]

\* 'pageRefs = pages.map((_, index) => index)': copyPages returns the copies
\* in this order and forEach adds them in it.
pageRefs(count) == [k \in 1..count |-> k - 1]

\* PDFController.compressPDF up to the service call, then PDFDocument.load
\* and, for 'maximum', the rebuild into a fresh document (on a copy failure
\* the loaded document is used).
CompressLoad ==
    /\ compPc = "load"
    /\ \/ /\ compPc' = "primary"
          /\ compPageCount' \in 1..MaxCompressPages
          /\ \/ /\ compressionLevel = "maximum"
                /\ finalDoc' = "fresh"
                /\ freshPages' = pageRefs(compPageCount')
             \/ /\ finalDoc' = "pdfDoc"
                /\ UNCHANGED freshPages
          /\ UNCHANGED compRes
       \/ /\ CompFail(500, "PDF compression failed")
          /\ UNCHANGED <<finalDoc, compPageCount, freshPages>>
    /\ UNCHANGED <<compressionLevel, altIdx, bestCompressed, bestSettings, saveLog>>
    /\ UNCHANGED notCompress

\* After the last attempt of the tier: the fallback when nothing was saved.
AfterAttempts(best) == IF best = NoBytes THEN "fallback" ELSE "validate"

\* One save attempt and the running best.
Attempt(settings, out) ==
    /\ saveLog' = Append(saveLog, [doc |-> finalDoc, settings |-> settings, out |-> out])
    /\ IF out # Threw /\ IsBetter(out, bestCompressed)
       THEN bestCompressed' = out /\ bestSettings' = settings
       ELSE UNCHANGED <<bestCompressed, bestSettings>>

\* The primary attempt: finalDoc.save(primarySettings).
CompressPrimary ==
    /\ compPc = "primary"
    /\ \E out \in SaveResults(saveLog, finalDoc, getCompressionSettings(compressionLevel)) :
          /\ Attempt(getCompressionSettings(compressionLevel), out)
          /\ compPc' = IF TriesAlternatives(compressionLevel) THEN "alternative"
                       ELSE AfterAttempts(bestCompressed')
    /\ UNCHANGED <<compressionLevel, finalDoc, altIdx, compRes>>
    /\ UNCHANGED <<compPageCount, freshPages>>
    /\ UNCHANGED notCompress

\* One iteration of the alternativeSettings loop.
CompressAlternative ==
    /\ compPc = "alternative"
    /\ \E out \in SaveResults(saveLog, finalDoc, alternativeSettings[altIdx]) :
          /\ Attempt(alternativeSettings[altIdx], out)
          /\ IF altIdx < Len(alternativeSettings)
             THEN altIdx' = altIdx + 1 /\ UNCHANGED compPc
             ELSE altIdx' = altIdx /\ compPc' = AfterAttempts(bestCompressed')
    /\ UNCHANGED <<compressionLevel, finalDoc, compRes>>
    /\ UNCHANGED <<compPageCount, freshPages>>
    /\ UNCHANGED notCompress

\* 'if (!bestCompressed)': finalDoc.save(basicSettings), uncaught when it throws.
CompressFallback ==
    /\ compPc = "fallback"
    /\ \E out \in SaveResults(saveLog, finalDoc, basicSettings) :
          /\ saveLog' = Append(saveLog, [doc |-> finalDoc, settings |-> basicSettings,
                                         out |-> out])
          /\ IF out = Threw
             THEN /\ CompFail(500, "PDF compression failed")
                  /\ UNCHANGED <<bestCompressed, bestSettings>>
             ELSE /\ bestCompressed' = out
                  /\ bestSettings' = basicSettings
                  /\ compPc' = "validate"
                  /\ UNCHANGED compRes
    /\ UNCHANGED <<compressionLevel, finalDoc, altIdx>>
    /\ UNCHANGED <<compPageCount, freshPages>>
    /\ UNCHANGED notCompress

\* The final validation (PDFDocument.load(bestCompressed)), then the
\* controller's buffer checks and the response.
CompressValidate ==
    /\ compPc = "validate"
    /\ compPc' = "responded"
    /\ compRes' =
         IF ~bestCompressed.reload
         THEN [status |-> 500, error |-> "Compression resulted in corrupted PDF",
               body |-> NoBytes]
         ELSE IF ~bestCompressed.header
         THEN [status |-> 500,
               error |-> "Compressed PDF buffer does not contain valid PDF header",
               body |-> NoBytes]
         ELSE [status |-> 200, error |-> "", body |-> bestCompressed]
    /\ UNCHANGED <<compressionLevel, finalDoc, altIdx, bestCompressed, bestSettings, saveLog>>
    /\ UNCHANGED <<compPageCount, freshPages>>
    /\ UNCHANGED notCompress

\* 'const { compressionLevel = 'medium' } = compressionData'.
LevelOf(data) ==
    IF "compressionLevel" \in DOMAIN data THEN data.compressionLevel ELSE "medium"

\* A compress request whose compressionData field is data.
CompressWith(data) ==
    /\ CompressStart /\ compressionData = data /\ mergeData = NoBytes
    /\ compressionLevel = LevelOf(ParseOrDefaults(data))
    /\ MergeIdle /\ TiersIdle /\ SplitIdle /\ MarksIdle

CompressionRequests ==
    {[compressionLevel |-> level] : level \in CompressionLevels \cup {"other"}}

CompressInit == \E data \in CompressionRequests : CompressWith(data)

CompressNext ==
    \/ CompressLoad
    \/ CompressPrimary
    \/ CompressAlternative
    \/ CompressFallback
    \/ CompressValidate

SpecCompress == CompressInit /\ [][CompressNext]_vars

\* ------------------------------------------------- compress, tier by tier

\* The attempts of a tier in the order compressPDF makes them.
AttemptsFor(level) ==
    <<getCompressionSettings(level)>>
    \o (IF TriesAlternatives(level) THEN alternativeSettings ELSE <<>>)

\* The running best after the attempts k..Len(attempts), from best.
RECURSIVE BestOf(_, _, _, _, _)
BestOf(saveOf, doc, attempts, k, best) ==
    IF k > Len(attempts) THEN best
    ELSE LET out == saveOf[<<doc, attempts[k]>>] IN
         BestOf(saveOf, doc, attempts, k + 1,
                IF out # Threw /\ IsBetter(out, best) THEN out ELSE best)

\* PDFService.compressPDF as a function of the tier, the document graph saved
\* and what each save produces: the bytes returned, or Threw.
compressPDF(level, doc, saveOf) ==
    LET tried == BestOf(saveOf, doc, AttemptsFor(level), 1, NoBytes)
        best == IF tried = NoBytes THEN saveOf[<<doc, basicSettings>>] ELSE tried
    IN IF best = Threw THEN Threw
       ELSE IF ~best.reload THEN Threw
       ELSE best

TierOrder == <<"low", "medium", "high", "maximum">>

\* The document graph each tier saves: 'maximum' saves the rebuilt one.
TierDoc(level) == IF level = "maximum" THEN "fresh" ELSE "pdfDoc"

\* Every <<document graph, settings>> some tier saves.
TierKeys ==
    UNION {{<<TierDoc(l), AttemptsFor(l)[k]>> : k \in DOMAIN AttemptsFor(l)} :
              l \in CompressionLevels}

\* Outputs that load again: every save of the document succeeds.
SoundBytes == [size : 1..MaxTierSize, reload : {TRUE}, header : {TRUE}]

TiersStart ==
    /\ tierOutputs \in [TierKeys -> SoundBytes]
    /\ tierChosen = <<>>

\* compressPDF on the same document with the next tier.
TierCompress ==
    /\ DOMAIN tierOutputs # {}
    /\ Len(tierChosen) < Len(TierOrder)
    /\ LET level == TierOrder[Len(tierChosen) + 1] IN
       tierChosen' = Append(tierChosen, compressPDF(level, TierDoc(level), tierOutputs).size)
    /\ UNCHANGED tierOutputs
    /\ UNCHANGED notTiers

TiersInit == TiersStart /\ MergeIdle /\ CompressIdle /\ SplitIdle /\ BodyIdle /\ MarksIdle

TiersNext == TierCompress

SpecTiers == TiersInit /\ [][TiersNext]_vars

\* ------------------------------------------------------------------- split

\* JavaScript numbers: the integers and NaN.  A JSON value of the model is
\* an integer or NotNumeric, which stands for every value parseInt cannot read.
NaN == 0 - 999

NotNumeric == 0 - 1000

parseInt(v) == IF v = NotNumeric THEN NaN ELSE v

JsLt(a, b) == a # NaN /\ b # NaN /\ a < b

JsLe(a, b) == a # NaN /\ b # NaN /\ a <= b

JsGt(a, b) == a # NaN /\ b # NaN /\ a > b

JsAdd(a, b) == IF a = NaN \/ b = NaN THEN NaN ELSE a + b

JsSub(a, b) == IF a = NaN \/ b = NaN THEN NaN ELSE a - b

MathMax(a, b) == IF a = NaN \/ b = NaN THEN NaN ELSE Max(a, b)

MathMin(a, b) == IF a = NaN \/ b = NaN THEN NaN ELSE Min(a, b)

\* The indices j with lo <= j < hi, ascending ('for (j = lo; j < hi; j++)').
IndicesFrom(lo, hi) ==
    IF JsLt(lo, hi) THEN [k \in 1..(hi - lo) |-> lo + k - 1] ELSE <<>>

\* `${fileName}_page_${a}.pdf`, `${fileName}_pages_${a}_to_${b}.pdf` and
\* `${fileName}_part_${a}.pdf`, kept as the pattern and the numbers put in it.
FileName(pattern, a, b) == [pattern |-> pattern, a |-> a, b |-> b]

SplitFail(status, error) ==
    /\ splitPc' = "responded"
    /\ splitRes' = [status |-> status, error |-> error, files |-> <<>>, container |-> ""]

\* The end of splitPDF without the 'results.length === 0' check.
SplitReturnEmptyOk(res) ==
    /\ splitPc' = "responded"
    /\ splitRes' = [status |-> 200, error |-> "", files |-> res,
                    container |-> IF Len(res) = 1 THEN "pdf" ELSE "zip"]

\* The end of splitPDF ('results.length === 0' throws) and the controller's
\* response: one file as it is, several in a zip archive.
SplitReturn(res) ==
    IF Len(res) = 0
    THEN SplitFail(500, "No valid pages or ranges specified for splitting")
    ELSE /\ splitPc' = "responded"
         /\ splitRes' = [status |-> 200, error |-> "", files |-> res,
                         container |-> IF Len(res) = 1 THEN "pdf" ELSE "zip"]

\* The 'pages' iteration with the lower bound off by one (pageNum >= 0).
PagesResultFromZero(pageNum) ==
    IF JsGt(pageNum, 0 - 1) /\ JsLe(pageNum, totalPages)
    THEN << [pageIndices |-> <<pageNum - 1>>,
             filename |-> FileName("page", pageNum, 0),
             pageRange |-> <<pageNum, pageNum>>,
             pageCount |-> 1] >>
    ELSE <<>>

\* The result of the 'pages' iteration for pageNum (none when out of range).
PagesResult(pageNum) ==
    IF JsGt(pageNum, 0) /\ JsLe(pageNum, totalPages)
    THEN << [pageIndices |-> <<pageNum - 1>>,
             filename |-> FileName("page", pageNum, 0),
             pageRange |-> <<pageNum, pageNum>>,
             pageCount |-> 1] >>
    ELSE <<>>

\* The 'ranges' iteration without the clamp of endPage to totalPages.
RangesResultNoClamp(range) ==
    LET startPage == MathMax(1, parseInt(range.start))
        endPage == parseInt(range.end)
    IN IF JsLe(startPage, endPage)
       THEN << [pageIndices |-> IndicesFrom(startPage - 1, endPage),
                filename |-> FileName("pages", startPage, endPage),
                pageRange |-> <<startPage, endPage>>,
                pageCount |-> endPage - startPage + 1] >>
       ELSE <<>>

\* The result of the 'ranges' iteration for range (none when empty).
RangesResult(range) ==
    LET startPage == MathMax(1, parseInt(range.start))
        endPage == MathMin(totalPages, parseInt(range.end))
    IN IF JsLe(startPage, endPage)
       THEN << [pageIndices |-> IndicesFrom(startPage - 1, endPage),
                filename |-> FileName("pages", startPage, endPage),
                pageRange |-> <<startPage, endPage>>,
                pageCount |-> endPage - startPage + 1] >>
       ELSE <<>>

\* The chunk size of 'every'.
everyN(everyNPages) == MathMax(1, parseInt(everyNPages))

\* The 'every' iteration without the clamp of endIndex to totalPages.
EveryResultNoClamp(i, n, part) ==
    LET endIndex == JsAdd(i, n) IN
    [pageIndices |-> IndicesFrom(i, endIndex),
     filename |-> FileName("part", part, 0),
     pageRange |-> <<i + 1, endIndex>>,
     pageCount |-> JsAdd(JsSub(endIndex, i + 1), 1)]

\* The result of the 'every' iteration starting at index i.
EveryResult(i, n, part) ==
    LET endIndex == MathMin(JsAdd(i, n), totalPages) IN
    [pageIndices |-> IndicesFrom(i, endIndex),
     filename |-> FileName("part", part, 0),
     pageRange |-> <<i + 1, endIndex>>,
     pageCount |-> JsAdd(JsSub(endIndex, i + 1), 1)]

SplitTypes == {"pages", "ranges", "every"}

RawNumbers(P) == (-1 .. P + 1) \cup {NotNumeric}

SplitRequest(type, pages, ranges, everyNPages) ==
    [splitType |-> type, pages |-> pages, ranges |-> ranges, everyNPages |-> everyNPages]

SplitStart(requests) ==
    /\ splitPc = "controller"
    /\ totalPages \in 1..MaxSplitPages
    /\ splitData \in requests
    /\ splitI = 0
    /\ partNumber = 1
    /\ results = <<>>
    /\ splitRes = NoResponse

\* PDFController.splitPDF up to the service call: JSON.parse of splitData.
SplitReceive ==
    /\ splitPc = "controller"
    /\ IF splitData = Malformed
       THEN SplitFail(400, "Invalid split data")
       ELSE splitPc' = "load" /\ UNCHANGED splitRes
    /\ UNCHANGED <<totalPages, splitData, splitI, partNumber, results>>
    /\ UNCHANGED notSplit

\* Whether the loop of the mode has an iteration to make at index i.
SplitLoopRuns(i) ==
    CASE splitData.splitType = "pages" -> i < Len(splitData.pages)
      [] splitData.splitType = "ranges" -> i < Len(splitData.ranges)
      [] splitData.splitType = "every" -> JsLt(i, totalPages)
      [] OTHER -> FALSE

\* After an iteration (or the load): the next iteration, or the return.
SplitContinue(res, i) ==
    IF SplitLoopRuns(i)
    THEN splitPc' = splitData.splitType /\ UNCHANGED splitRes
    ELSE SplitReturn(res)

\* PDFDocument.load(pdfBuffer) and the dispatch on splitType.
SplitLoad ==
    /\ splitPc = "load"
    /\ \/ IF splitData.splitType \in SplitTypes
          THEN SplitContinue(results, 0)
          ELSE SplitFail(500, "Invalid split type")
       \/ SplitFail(500, "PDF splitting failed")
    /\ UNCHANGED <<totalPages, splitData, splitI, partNumber, results>>
    /\ UNCHANGED notSplit

\* One iteration of the mode's loop: create, copyPages, save, push.
SplitIteration(found, nextI, nextPart) ==
    /\ \/ /\ results' = results \o found
          /\ splitI' = nextI
          /\ partNumber' = nextPart
          /\ SplitContinue(results', nextI)
       \/ /\ found # <<>>
          /\ SplitFail(500, "PDF splitting failed")
          /\ UNCHANGED <<results, splitI, partNumber>>
    /\ UNCHANGED <<totalPages, splitData>>
    /\ UNCHANGED notSplit

SplitPagesStep ==
    /\ splitPc = "pages"
    /\ SplitIteration(PagesResult(parseInt(splitData.pages[splitI + 1])),
                      splitI + 1, partNumber)

SplitRangesStep ==
    /\ splitPc = "ranges"
    /\ SplitIteration(RangesResult(splitData.ranges[splitI + 1]), splitI + 1, partNumber)

SplitEveryStep ==
    /\ splitPc = "every"
    /\ LET n == everyN(splitData.everyNPages) IN
       SplitIteration(<<EveryResult(splitI, n, partNumber)>>, JsAdd(splitI, n),
                      partNumber + 1)

PagesRequests ==
    UNION {{SplitRequest("pages", pages, <<>>, 1) :
              pages \in SeqsOf(RawNumbers(MaxSplitPages), 0, MaxPagesList)}}
    \cup {Malformed, SplitRequest("merge", <<>>, <<>>, 1)}

\* Range endpoints: below, at and just above the first page, and just below,
\* at and above the last page of the longest document.
RangeEnds == {0, 1, 2, MaxSplitPages - 1, MaxSplitPages, MaxSplitPages + 1}

RangesRequests ==
    {SplitRequest("ranges", <<>>, ranges, 1) :
        ranges \in SeqsOf([start : RangeEnds, end : RangeEnds], 0, MaxRangesList)}

EveryRequests ==
    {SplitRequest("every", <<>>, <<>>, n) : n \in RawNumbers(MaxSplitPages)}

SplitPagesInit ==
    /\ SplitStart(PagesRequests)
    /\ MergeIdle /\ CompressIdle /\ TiersIdle /\ BodyIdle /\ MarksIdle

SplitRangesInit ==
    /\ SplitStart(RangesRequests)
    /\ MergeIdle /\ CompressIdle /\ TiersIdle /\ BodyIdle /\ MarksIdle

SplitEveryInit ==
    /\ SplitStart(EveryRequests)
    /\ MergeIdle /\ CompressIdle /\ TiersIdle /\ BodyIdle /\ MarksIdle

SplitPagesNext == SplitReceive \/ SplitLoad \/ SplitPagesStep

SplitRangesNext == SplitReceive \/ SplitLoad \/ SplitRangesStep

SplitEveryNext == SplitReceive \/ SplitLoad \/ SplitEveryStep

SpecSplitPages == SplitPagesInit /\ [][SplitPagesNext]_vars

SpecSplitRanges == SplitRangesInit /\ [][SplitRangesNext]_vars

SpecSplitEvery == SplitEveryInit /\ [][SplitEveryNext]_vars

\* A split request of any mode.
SplitInit == SplitPagesInit \/ SplitRangesInit \/ SplitEveryInit

SplitNext == SplitReceive \/ SplitLoad \/ SplitPagesStep \/ SplitRangesStep
             \/ SplitEveryStep

SpecSplit == SplitInit /\ [][SplitNext]_vars

\* ---------------------------------------------------------------- template

\* A text is a sequence of pieces: the literals the patterns of
\* processTemplate are made of, and "t" for any other run of characters.
Pieces == {"Page ", "(x)", " of ", "(y)", "(file)", "t"}

\* Number.prototype.toString for the page numbers of the model.
toString(n) == <<"0", "1", "2", "3", "4", "5", "6", "7", "8", "9">>[n + 1]

\* String.prototype.replace with a global literal pattern: the matches are
\* found left to right, do not overlap, and the replacement is not rescanned.
RECURSIVE Replace(_, _, _)
Replace(text, pattern, replacement) ==
    IF Len(text) < Len(pattern) THEN text
    ELSE IF SubSeq(text, 1, Len(pattern)) = pattern
         THEN replacement
              \o Replace(SubSeq(text, Len(pattern) + 1, Len(text)), pattern, replacement)
         ELSE <<Head(text)>> \o Replace(Tail(text), pattern, replacement)

\* processTemplate with the bare '(x)' replaced before the longer patterns.
processTemplateBareFirst(text, pageNum, total) ==
    LET x == toString(pageNum)
        y == toString(total)
        s1 == Replace(text, <<"(x)">>, <<x>>)
        s2 == Replace(s1, <<"Page ", "(x)", " of ", "(y)">>, <<"Page ", x, " of ", y>>)
        s3 == Replace(s2, <<"(x)", " of ", "(y)">>, <<x, " of ", y>>)
        s4 == Replace(s3, <<"Page ", "(x)">>, <<"Page ", x>>)
    IN Replace(s4, <<"(file)">>, <<"Document">>)

processTemplate(text, pageNum, total) ==
    LET x == toString(pageNum)
        y == toString(total)
        s1 == Replace(text, <<"Page ", "(x)", " of ", "(y)">>, <<"Page ", x, " of ", y>>)
        s2 == Replace(s1, <<"(x)", " of ", "(y)">>, <<x, " of ", y>>)
        s3 == Replace(s2, <<"Page ", "(x)">>, <<"Page ", x>>)
        s4 == Replace(s3, <<"(x)">>, <<x>>)
    IN Replace(s4, <<"(file)">>, <<"Document">>)

TemplateCalls ==
    {a \in [text : SeqsOf(Pieces, 0, MaxTextLen),
            pageNum : 1..MaxTemplatePages,
            totalPages : 1..MaxTemplatePages] : a.pageNum <= a.totalPages}

TemplateStart ==
    /\ templateArgs \in TemplateCalls
    /\ processedText = NoBytes

\* One call of processTemplate, from its arguments to its return.
TemplateReturn ==
    /\ templateArgs # NoBytes
    /\ processedText = NoBytes
    /\ processedText' = [text |-> processTemplate(templateArgs.text,
                                                  templateArgs.pageNum,
                                                  templateArgs.totalPages)]
    /\ UNCHANGED <<templateArgs, bodyVars, hfVars, wmVars, otherVars>>
    /\ UNCHANGED <<mergeVars, compVars, tierVars, splitVars>>

TemplateInit ==
    /\ TemplateStart /\ HeaderFooterIdle /\ WatermarkIdle /\ BodyIdle /\ OtherIdle
    /\ MergeIdle /\ CompressIdle /\ TiersIdle /\ SplitIdle

TemplateNext == TemplateReturn

SpecTemplate == TemplateInit /\ [][TemplateNext]_vars

\* ------------------------------------------------------------ header/footer

headerY == 750

footerY == 50

\* The six text slots, in the order addHeaderFooterToPDF draws them.
Slots == <<"leftHeader", "middleHeader", "rightHeader",
           "leftFooter", "middleFooter", "rightFooter">>

SlotY(slot) == IF slot \in {"leftHeader", "middleHeader", "rightHeader"}
               THEN headerY ELSE footerY

\* 'parseInt(fontSize) || 10': NaN and 0 are falsy.
textSizeOf(fontSize) ==
    LET parsed == parseInt(fontSize) IN
    IF parsed = NaN \/ parsed = 0 THEN 10 ELSE parsed

\* addWhiteBackground(page, y, width): page.drawRectangle at y - 5.
WhiteBackground(y) ==
    [op |-> "drawRectangle", slot |-> "", y |-> y - 5, text |-> <<>>, size |-> 0]

\* addTextToPage(page, processedText, {size, x, y, ...}): page.drawText.
TextOnPage(slot, text, size) ==
    [op |-> "drawText", slot |-> slot, y |-> SlotY(slot), text |-> text, size |-> size]

\* The drawText call of a slot on page currentPageNum (none for an empty slot).
SlotDrawing(data, slot, currentPageNum, pageCount) ==
    IF data[slot] = <<>> THEN <<>>
    ELSE << TextOnPage(slot, processTemplate(data[slot], currentPageNum, pageCount),
                       textSizeOf(data.fontSize)) >>

\* The body of the page loop with the white rectangles drawn after the slots.
PageDrawingCoverLast(data, currentPageNum, pageCount) ==
    SlotDrawing(data, Slots[1], currentPageNum, pageCount)
    \o SlotDrawing(data, Slots[2], currentPageNum, pageCount)
    \o SlotDrawing(data, Slots[3], currentPageNum, pageCount)
    \o SlotDrawing(data, Slots[4], currentPageNum, pageCount)
    \o SlotDrawing(data, Slots[5], currentPageNum, pageCount)
    \o SlotDrawing(data, Slots[6], currentPageNum, pageCount)
    \o (IF data.coverWithWhite
        THEN <<WhiteBackground(headerY), WhiteBackground(footerY)>> ELSE <<>>)

\* The body of the page loop for page i + 1: the white rectangles when
\* coverWithWhite, then the six slots.
PageDrawing(data, currentPageNum, pageCount) ==
    (IF data.coverWithWhite
     THEN <<WhiteBackground(headerY), WhiteBackground(footerY)>> ELSE <<>>)
    \o SlotDrawing(data, Slots[1], currentPageNum, pageCount)
    \o SlotDrawing(data, Slots[2], currentPageNum, pageCount)
    \o SlotDrawing(data, Slots[3], currentPageNum, pageCount)
    \o SlotDrawing(data, Slots[4], currentPageNum, pageCount)
    \o SlotDrawing(data, Slots[5], currentPageNum, pageCount)
    \o SlotDrawing(data, Slots[6], currentPageNum, pageCount)

\* 'for (let i = startPage - 1; i < pages.length; i++)': the first index.
FirstIndex(startPage) == JsSub(startPage, 1)

\* pages[i] is undefined for the first index of the loop, so that
\* page.getSize() throws a TypeError.
FirstPageUndefined(startPage, pageCount) ==
    JsLt(FirstIndex(startPage), pageCount) /\ JsLt(FirstIndex(startPage), 0)

\* What the pages carry after the loop.
HeaderFooterDrawn(data, pageCount) ==
    [k \in 1..pageCount |->
        IF JsLe(FirstIndex(data.startPage), k - 1)
        THEN PageDrawing(data, k, pageCount) ELSE <<>>]

SlotTexts == {<<>>, <<"Page ", "(x)", " of ", "(y)">>}

FontSizeInputs == {NotNumeric, 0 - 5, 0, 12}

HeaderFooterRequests(pageCount) ==
    [leftHeader : SlotTexts, middleHeader : SlotTexts, rightHeader : SlotTexts,
     leftFooter : SlotTexts, middleFooter : SlotTexts, rightFooter : SlotTexts,
     startPage : RawNumbers(pageCount),
     coverWithWhite : BOOLEAN,
     fontSize : FontSizeInputs]
    \cup {Malformed}

HeaderFooterStart ==
    /\ hfPc = "controller"
    /\ hfPageCount \in 1..MaxHeaderFooterPages
    /\ headerFooterData \in HeaderFooterRequests(hfPageCount)
    /\ hfDrawn = <<>>
    /\ hfRes = NoResponse

HfFail(status, error) ==
    /\ hfPc' = "responded"
    /\ hfRes' = [status |-> status, error |-> error, body |-> NoBytes]

\* PDFController.processPDF up to the service call: JSON.parse of
\* headerFooterData.
HfReceive ==
    /\ hfPc = "controller"
    /\ IF headerFooterData = Malformed
       THEN HfFail(400, "Invalid header/footer data")
       ELSE hfPc' = "service" /\ UNCHANGED hfRes
    /\ UNCHANGED <<hfPageCount, headerFooterData, hfDrawn>>
    /\ UNCHANGED <<bodyVars, tplVars, wmVars, otherVars, mergeVars, compVars, tierVars,
                   splitVars>>

\* addHeaderFooterToPDF and the response: load, the page loop, save.  Any
\* throw is rethrown as 'PDF processing failed' and answered with 500.
HfProcess ==
    /\ hfPc = "service"
    /\ \/ /\ HfFail(500, "PDF processing failed: load")
          /\ UNCHANGED hfDrawn
       \/ /\ FirstPageUndefined(headerFooterData.startPage, hfPageCount)
          /\ HfFail(500, "PDF processing failed: Cannot read properties of undefined")
          /\ UNCHANGED hfDrawn
       \/ /\ ~FirstPageUndefined(headerFooterData.startPage, hfPageCount)
          /\ hfDrawn' = HeaderFooterDrawn(headerFooterData, hfPageCount)
          /\ \/ /\ hfPc' = "responded"
                /\ hfRes' = [status |-> 200, error |-> "", body |-> hfDrawn']
             \/ HfFail(500, "PDF processing failed: save")
    /\ UNCHANGED <<hfPageCount, headerFooterData>>
    /\ UNCHANGED <<bodyVars, tplVars, wmVars, otherVars, mergeVars, compVars, tierVars,
                   splitVars>>

HeaderFooterInit ==
    /\ HeaderFooterStart /\ TemplateIdle /\ WatermarkIdle /\ BodyIdle /\ OtherIdle
    /\ MergeIdle /\ CompressIdle /\ TiersIdle /\ SplitIdle

HeaderFooterNext == HfReceive \/ HfProcess

SpecHeaderFooter == HeaderFooterInit /\ [][HeaderFooterNext]_vars

\* ---------------------------------------------------------------- watermark

\* A configuration field that the request does not give (undefined).
Absent == 0 - 1001

\* A destructuring default: 'const { field = byDefault } = watermarkData'.
OrDefault(field, byDefault) == IF field = Absent THEN byDefault ELSE field

\* 'parseInt(fontSize) || 48'.
watermarkSizeOf(fontSize) ==
    LET parsed == parseInt(OrDefault(fontSize, 48)) IN
    IF parsed = NaN \/ parsed = 0 THEN 48 ELSE parsed

\* 'Math.max(0, Math.min(1, parseFloat(opacity)))', opacity counted in
\* hundredths (the default 0.3 is 30).
watermarkOpacityOf(opacity) ==
    MathMax(0, MathMin(100, parseInt(OrDefault(opacity, 30))))

\* 'parseInt(rotation) || 45'.
watermarkRotationOf(rotation) ==
    LET parsed == parseInt(OrDefault(rotation, 45)) IN
    IF parsed = NaN \/ parsed = 0 THEN 45 ELSE parsed

startPageIndexOf(startPage) ==
    MathMax(0, JsSub(parseInt(OrDefault(startPage, 1)), 1))

\* endPageIndex with actualEndPage taken from endPage as it is (no sentinel).
endPageIndexNoSentinel(endPage, pageCount) ==
    MathMin(pageCount - 1, JsSub(parseInt(OrDefault(endPage, 0)), 1))

\* 'actualEndPage = endPage === 0 ? pages.length : parseInt(endPage)' and
\* 'endPageIndex = Math.min(pages.length - 1, actualEndPage - 1)'.
endPageIndexOf(endPage, pageCount) ==
    LET actualEndPage == IF OrDefault(endPage, 0) = 0 THEN pageCount
                         ELSE parseInt(endPage)
    IN MathMin(pageCount - 1, JsSub(actualEndPage, 1))

\* The drawText call made on every page of the range.
WatermarkText(data) ==
    [op |-> "drawText",
     size |-> watermarkSizeOf(data.fontSize),
     opacity |-> watermarkOpacityOf(data.opacity),
     rotate |-> watermarkRotationOf(data.rotation)]

\* What the pages carry after the loop 'for (i = startPageIndex; i <= endPageIndex; i++)'.
WatermarkDrawn(data, pageCount) ==
    [k \in 1..pageCount |->
        IF /\ JsLe(startPageIndexOf(data.startPage), k - 1)
           /\ JsLe(k - 1, endPageIndexOf(data.endPage, pageCount))
        THEN <<WatermarkText(data)>> ELSE <<>>]

\* Whether the loop draws at all.
WatermarkLoopRuns(data, pageCount) ==
    JsLe(startPageIndexOf(data.startPage), endPageIndexOf(data.endPage, pageCount))

WatermarkFontSizes == {NotNumeric, 0, 5, 48, 150}

WatermarkOpacities == {NotNumeric, 0 - 10, 30, 150}

WatermarkRotations == {Absent, NotNumeric, 0 - 120, 0, 30}

WatermarkRequests(pageCount) ==
    [fontSize : WatermarkFontSizes,
     opacity : WatermarkOpacities,
     rotation : WatermarkRotations,
     startPage : (-1)..(pageCount + 1),
     endPage : (-1)..(pageCount + 1)]
    \cup {Malformed}

WatermarkStart ==
    /\ wmPc = "controller"
    /\ wmPageCount \in 1..MaxWatermarkPages
    /\ watermarkData \in WatermarkRequests(wmPageCount)
    /\ wmDrawn = <<>>
    /\ wmRes = NoResponse

WmFail(status, error) ==
    /\ wmPc' = "responded"
    /\ wmRes' = [status |-> status, error |-> error, body |-> NoBytes]

\* PDFController.addWatermark up to the service call: JSON.parse of
\* watermarkData.
WmReceive ==
    /\ wmPc = "controller"
    /\ IF watermarkData = Malformed
       THEN WmFail(400, "Invalid watermark data")
       ELSE wmPc' = "service" /\ UNCHANGED wmRes
    /\ UNCHANGED <<wmPageCount, watermarkData, wmDrawn>>
    /\ UNCHANGED <<bodyVars, tplVars, hfVars, otherVars, mergeVars, compVars, tierVars,
                   splitVars>>

\* addWatermarkToPDF and the response: load, the page loop, save.  Any throw
\* is rethrown as 'Watermark processing failed' and answered with 500.  What
\* drawText does with an opacity of NaN is pdf-lib's: it draws or it throws.
WmProcess ==
    /\ wmPc = "service"
    /\ \/ /\ WmFail(500, "Watermark processing failed: load")
          /\ UNCHANGED wmDrawn
       \/ /\ WatermarkLoopRuns(watermarkData, wmPageCount)
          /\ watermarkOpacityOf(watermarkData.opacity) = NaN
          /\ WmFail(500, "Watermark processing failed: drawText")
          /\ UNCHANGED wmDrawn
       \/ /\ wmDrawn' = WatermarkDrawn(watermarkData, wmPageCount)
          /\ \/ /\ wmPc' = "responded"
                /\ wmRes' = [status |-> 200, error |-> "", body |-> wmDrawn']
             \/ WmFail(500, "Watermark processing failed: save")
    /\ UNCHANGED <<wmPageCount, watermarkData>>
    /\ UNCHANGED <<bodyVars, tplVars, hfVars, otherVars, mergeVars, compVars, tierVars,
                   splitVars>>

WatermarkInit ==
    /\ WatermarkStart /\ TemplateIdle /\ HeaderFooterIdle /\ BodyIdle /\ OtherIdle
    /\ MergeIdle /\ CompressIdle /\ TiersIdle /\ SplitIdle

WatermarkNext == WmReceive \/ WmProcess

SpecWatermark == WatermarkInit /\ [][WatermarkNext]_vars

\* --------------------------------------------------- validation of bytes

\* Bytes are taken in blocks of half the trailer window.
BlockBytes == TrailerBytes \div 2

\* A block is the set of the markers the structure checks look for that are
\* found in it, "%PDF-" meaning that the block starts with the signature.
Blocks == SUBSET {"%PDF-", "%%EOF", "/Type /Catalog", "/Type /Pages"}

\* 'decode(pdfBytes.slice(0, 8)).startsWith("%PDF-")'.
HeaderFound(blocks) == blocks # <<>> /\ "%PDF-" \in blocks[1]

\* 'pdfBytes.slice(-1024)': the last 1024 bytes, all of them when there are
\* fewer.
TrailerSlice(blocks) ==
    SubSeq(blocks, Max(1, Len(blocks) - (TrailerBytes \div BlockBytes) + 1), Len(blocks))

\* 'decode(bytes).includes(marker)'.
Includes(blocks, marker) == \E k \in DOMAIN blocks : marker \in blocks[k]

\* The pages the validated document was saved from.
ValPages == << <<1, 0>> >>

\* The bytes as the checks see them: what the re-load gives and which
\* markers the decoded slices hold.
Checked(blocks, reload) ==
    [pages |-> ValPages, reload |-> reload.reload, countDelta |-> reload.countDelta,
     header |-> HeaderFound(blocks),
     eof |-> Includes(TrailerSlice(blocks), "%%EOF"),
     catalog |-> Includes(blocks, "/Type /Catalog"),
     pagesMarker |-> Includes(blocks, "/Type /Pages")]

ValidateStart ==
    /\ valBytes \in SeqsOf(Blocks, 0, MaxBlocks)
    /\ valReload \in [reload : BOOLEAN, countDelta : {0, 1}]
    /\ valResult = NoBytes

notValidate == <<mergeVars, compVars, tierVars, splitVars, bodyVars, tplVars, hfVars, wmVars,
                 estVars, previewVars, concVars>>

\* One call of validatePDFStructure(pdfBytes).
ValidateStructure ==
    /\ valResult = NoBytes
    /\ valResult' = [by |-> "validatePDFStructure",
                     error |-> validatePDFStructure(Checked(valBytes, valReload))]
    /\ UNCHANGED <<valBytes, valReload>>
    /\ UNCHANGED notValidate

\* The validation block of mergePDFs on the bytes of a one-page document.
ValidateMerged ==
    /\ valResult = NoBytes
    /\ valResult' = [by |-> "mergePDFs",
                     error |-> MergeValidationError(Checked(valBytes, valReload),
                                                    Len(ValPages))]
    /\ UNCHANGED <<valBytes, valReload>>
    /\ UNCHANGED notValidate

ValidateInit ==
    /\ ValidateStart /\ TemplateIdle /\ HeaderFooterIdle /\ WatermarkIdle /\ BodyIdle
    /\ EstimateIdle /\ PreviewIdle /\ ConcurrentIdle
    /\ MergeIdle /\ CompressIdle /\ TiersIdle /\ SplitIdle

ValidateNext == ValidateStructure \/ ValidateMerged

SpecValidate == ValidateInit /\ [][ValidateNext]_vars

\* ---------------------------------------------------- compression preview

\* Math.round of the fraction num/den (num >= 0, den > 0): halves go up.
MathRound(num, den) == (2 * num + den) \div (2 * den)

\* baseCompression before 'Math.max(5, Math.min(baseCompression, 40))'.
\* The whitespace term is min(ratio * 100, 10) for a ratio above 0.1.
rawBaseCompression(buffer) ==
    10
    + (IF buffer.textObjects > 0 THEN Min(buffer.textObjects * 2, 20) ELSE 0)
    + (IF buffer.streamCount > 10 THEN Min(buffer.streamCount, 15) ELSE 0)
    + (IF 10 * buffer.whitespace > buffer.length
       THEN Min((buffer.whitespace * 100) \div buffer.length, 10) ELSE 0)
    + (IF buffer.info THEN 5 ELSE 0)

\* The base percentage without its ceiling.
baseCompressionNoCeiling(buffer) == Max(5, rawBaseCompression(buffer))

\* 'baseCompression = Math.max(5, Math.min(baseCompression, 40))'.
baseCompression(buffer) == Max(5, Min(rawBaseCompression(buffer), 40))

\* estimateCompressionPotential: the percentages 0.3, 0.6, 1.0 and 1.5 times
\* the base, rounded.
estimateCompressionPotential(buffer) ==
    [low |-> MathRound(baseCompression(buffer) * 3, 10),
     medium |-> MathRound(baseCompression(buffer) * 6, 10),
     high |-> baseCompression(buffer),
     maximum |-> MathRound(baseCompression(buffer) * 15, 10)]

\* getCompressionInfo: per tier the reduction percentage, the estimated
\* savings 'Math.round(originalSize * (percentage / 100))' and the estimated
\* size 'originalSize - savings'.
getCompressionInfo(buffer) ==
    [originalSize |-> buffer.length,
     baselineCompression |-> estimateCompressionPotential(buffer),
     estimatedSize |->
        [level \in CompressionLevels |->
            buffer.length
            - MathRound(buffer.length * estimateCompressionPotential(buffer)[level], 100)]]

\* The uploads of the preview: a length, and what the four scans of the
\* content count in it.
EstimateBuffers ==
    {b \in [length : {1, 3, 999, 1000}, whitespace : {0, 1, 100, 101},
            textObjects : {0, 1, 9, 10, 11}, streamCount : {0, 10, 11, 15, 16},
            info : BOOLEAN] : b.whitespace <= b.length}

EstimateStart ==
    /\ estBuffer \in EstimateBuffers
    /\ estInfo = NoBytes

\* PDFController.getCompressionInfo: the preview of the uploaded file.
Estimate ==
    /\ estBuffer # NoBytes
    /\ \/ estInfo' = getCompressionInfo(estBuffer)
       \/ estInfo' = [error |-> "Failed to analyze PDF for compression"]
    /\ UNCHANGED estBuffer
    /\ UNCHANGED <<mergeVars, compVars, tierVars, splitVars, bodyVars, tplVars, hfVars, wmVars,
                   valVars, previewVars, concVars>>

\* A preview of a file and a low-tier compress request for it, in any order.
EstimateInit ==
    /\ EstimateStart
    /\ CompressStart /\ compressionData = [compressionLevel |-> "low"] /\ mergeData = NoBytes
    /\ compressionLevel = LevelOf(ParseOrDefaults(compressionData))
    /\ MergeIdle /\ TiersIdle /\ SplitIdle
    /\ TemplateIdle /\ HeaderFooterIdle /\ WatermarkIdle /\ ValidateIdle /\ PreviewIdle
    /\ ConcurrentIdle

\* The preview and the steps of a low-tier compress request (which makes no
\* alternative attempt).
EstimateNext ==
    Estimate \/ CompressLoad \/ CompressPrimary \/ CompressFallback \/ CompressValidate

SpecEstimate == EstimateInit /\ [][EstimateNext]_vars

\* ------------------------------------------------- client: MergeEditor

\* The files a user can choose.
PreviewFiles == 1..MaxPreviewFiles

\* Lists of distinct files.
FileLists ==
    {files \in SeqsOf(PreviewFiles, 1, MaxPreviewFiles) :
        \A a, b \in DOMAIN files : a # b => files[a] # files[b]}

\* The body of an ok response of /api/pdf/merge/preview for files: the
\* summary lists them in the order they were sent.
PreviewOf(files) == [files |-> files]

notPreview == <<mergeVars, compVars, tierVars, splitVars, bodyVars, tplVars, hfVars, wmVars,
               valVars, estVars, concVars>>

\* generatePreview(files) up to its fetch: null for fewer than two files,
\* else a POST of the files whose response is awaited.
generatePreview(files) ==
    IF Len(files) < 2
    THEN previewData' = NoBytes /\ UNCHANGED <<pending, previewsSent>>
    ELSE /\ pending' = pending \cup {[id |-> previewsSent + 1, files |-> files]}
         /\ previewsSent' = previewsSent + 1
         /\ UNCHANGED previewData

\* handleFileUpload / handleDrop with at least one PDF file.
handleFileUpload ==
    /\ previewsSent < MaxPreviews
    /\ \E pdfFiles \in FileLists :
          /\ selectedFiles' = pdfFiles
          /\ generatePreview(pdfFiles)
    /\ UNCHANGED notPreview

\* removeFile(index), index 0-based.
removeFile ==
    /\ previewsSent < MaxPreviews
    /\ \E index \in 0..(Len(selectedFiles) - 1) :
          LET newFiles == SubSeq(selectedFiles, 1, index)
                          \o SubSeq(selectedFiles, index + 2, Len(selectedFiles))
          IN  /\ selectedFiles' = newFiles
              /\ IF Len(newFiles) >= 2
                 THEN generatePreview(newFiles)
                 ELSE previewData' = NoBytes /\ UNCHANGED <<pending, previewsSent>>
    /\ UNCHANGED notPreview

\* moveFile(fromIndex, toIndex) from the up and down buttons: the file is
\* spliced out and in again one place earlier or later.
moveFile ==
    /\ previewsSent < MaxPreviews
    /\ \E fromIndex \in 0..(Len(selectedFiles) - 1) :
       \E toIndex \in {fromIndex - 1, fromIndex + 1} \cap (0..(Len(selectedFiles) - 1)) :
          LET without == SubSeq(selectedFiles, 1, fromIndex)
                         \o SubSeq(selectedFiles, fromIndex + 2, Len(selectedFiles))
              newFiles == SubSeq(without, 1, toIndex) \o <<selectedFiles[fromIndex + 1]>>
                          \o SubSeq(without, toIndex + 1, Len(without))
          IN  /\ selectedFiles' = newFiles
              /\ generatePreview(newFiles)
    /\ UNCHANGED notPreview

\* The rest of generatePreview once its fetch settles: the body of an ok
\* response becomes previewData, any other outcome sets it to null.
PreviewResponse ==
    /\ \E request \in pending :
          /\ pending' = pending \ {request}
          /\ \/ previewData' = PreviewOf(request.files)
             \/ previewData' = NoBytes
    /\ UNCHANGED <<selectedFiles, previewsSent>>
    /\ UNCHANGED notPreview

PreviewInit ==
    /\ PreviewIdle /\ ValidateIdle /\ EstimateIdle /\ ConcurrentIdle
    /\ TemplateIdle /\ HeaderFooterIdle /\ WatermarkIdle /\ BodyIdle
    /\ MergeIdle /\ CompressIdle /\ TiersIdle /\ SplitIdle

PreviewNext == handleFileUpload \/ removeFile \/ moveFile \/ PreviewResponse

SpecPreview == PreviewInit /\ [][PreviewNext]_vars

\* ------------------------------------------- two merge requests at once

\* The two requests in flight.
Requests == {1, 2}

\* An uploaded file as pdf-lib finds it: its page count, whether it loads
\* and whether its pages can be copied.
UploadedFiles == [pages : 1..MaxConcurrentPages, loads : BOOLEAN, copies : BOOLEAN]

\* The values Date.now() takes while the two requests are served.
ClockValues == {1, 2}

notConcurrent == <<mergeVars, compVars, tierVars, splitVars, bodyVars, tplVars, hfVars, wmVars,
                  valVars, estVars, previewVars>>

ConcurrentStart ==
    /\ reqFiles \in [Requests -> [1..2 -> UploadedFiles]]
    /\ reqPc = [r \in Requests |-> "info"]
    /\ reqI = [r \in Requests |-> 1]
    /\ reqDoc = [r \in Requests |-> <<>>]
    /\ reqRes = [r \in Requests |-> NoResponse]
    /\ tempDir = [name \in ClockValues |-> NoBytes]

\* The copied pages added to one document that all requests share.
addPagesShared(docs, r, copied) == [d \in DOMAIN docs |-> docs[d] \o copied]

\* 'allCopiedPages.forEach(page => mergedPdf.addPage(page))': mergedPdf is
\* the document the request created for itself.
addPages(docs, r, copied) == [docs EXCEPT ![r] = @ \o copied]

\* getPDFMergeInfo of request r: every upload is loaded and counted.
ConcurrentInfo(r) ==
    /\ reqPc[r] = "info"
    /\ IF \A k \in DOMAIN reqFiles[r] : reqFiles[r][k].loads
       THEN /\ reqPc' = [reqPc EXCEPT ![r] = "load"]
            /\ UNCHANGED reqRes
       ELSE /\ reqPc' = [reqPc EXCEPT ![r] = "responded"]
            /\ reqRes' = [reqRes EXCEPT ![r] = [status |-> 500, error |-> "PDF merge failed",
                                                body |-> NoBytes]]
    /\ UNCHANGED <<reqFiles, reqI, reqDoc, tempDir>>
    /\ UNCHANGED notConcurrent

\* 'await Promise.race([loadPromise, ...])' of request r for its upload i.
ConcurrentLoad(r) ==
    /\ reqPc[r] = "load"
    /\ reqPc' = [reqPc EXCEPT ![r] = "copy"]
    /\ UNCHANGED <<reqFiles, reqI, reqDoc, reqRes, tempDir>>
    /\ UNCHANGED notConcurrent

\* 'await mergedPdf.copyPages(currentPdf, pageIndices)' of request r, the
\* retries page by page when it throws, and addPage of what was copied.
ConcurrentCopy(r) ==
    /\ reqPc[r] = "copy"
    /\ reqDoc' = addPages(reqDoc, r,
                          IF reqFiles[r][reqI[r]].copies
                          THEN PagesOf(reqI[r], 0, reqFiles[r][reqI[r]].pages - 1)
                          ELSE <<>>)
    /\ reqI' = [reqI EXCEPT ![r] = @ + 1]
    /\ reqPc' = [reqPc EXCEPT ![r] = IF reqI[r] < Len(reqFiles[r]) THEN "load" ELSE "save"]
    /\ UNCHANGED <<reqFiles, reqRes, tempDir>>
    /\ UNCHANGED notConcurrent

\* 'await mergedPdf.save(...)' of request r, then the controller: the debug
\* copy written to temp/debug-<Date.now()>.pdf and the response.
ConcurrentSave(r) ==
    /\ reqPc[r] = "save"
    /\ reqPc' = [reqPc EXCEPT ![r] = "responded"]
    /\ reqRes' = [reqRes EXCEPT ![r] = [status |-> 200, error |-> "", body |-> reqDoc[r]]]
    /\ \E now \in ClockValues : tempDir' = [tempDir EXCEPT ![now] = [bytes |-> reqDoc[r]]]
    /\ UNCHANGED <<reqFiles, reqI, reqDoc>>
    /\ UNCHANGED notConcurrent

ConcurrentInit ==
    /\ ConcurrentStart /\ PreviewIdle /\ ValidateIdle /\ EstimateIdle
    /\ TemplateIdle /\ HeaderFooterIdle /\ WatermarkIdle /\ BodyIdle
    /\ MergeIdle /\ CompressIdle /\ TiersIdle /\ SplitIdle

ConcurrentNext ==
    \E r \in Requests :
        ConcurrentInfo(r) \/ ConcurrentLoad(r) \/ ConcurrentCopy(r) \/ ConcurrentSave(r)

SpecConcurrent == ConcurrentInit /\ [][ConcurrentNext]_vars

\* ------------------------------------------------------------ all requests

Init == MergeInit \/ CompressInit \/ TiersInit \/ SplitPagesInit \/ SplitRangesInit
        \/ SplitEveryInit \/ TemplateInit \/ HeaderFooterInit \/ WatermarkInit

Next == MergeNext \/ CompressNext \/ TiersNext \/ SplitPagesNext \/ SplitRangesStep
        \/ SplitEveryStep \/ TemplateNext \/ HeaderFooterNext \/ WatermarkNext

Spec == Init /\ [][Next]_vars

\* ------------------------- the five operations that take a configuration

\* A request of any of the five operations, its configuration field well
\* formed or not.
ConfiguredInit ==
    \/ \E data \in {EmptyConfig, Malformed} : MergeWith(data)
    \/ \E data \in CompressionRequests \cup {Malformed} : CompressWith(data)
    \/ SplitInit
    \/ HeaderFooterInit
    \/ WatermarkInit

ConfiguredNext ==
    MergeNext \/ CompressNext \/ SplitNext \/ HeaderFooterNext \/ WatermarkNext

SpecConfigured == ConfiguredInit /\ [][ConfiguredNext]_vars

\* ------------------------------------------- merge and compress together

MergeCompressInit == MergeInit \/ CompressInit

MergeCompressNext == MergeNext \/ CompressNext

SpecMergeCompress == MergeCompressInit /\ [][MergeCompressNext]_vars

\* ================================================================== claims

PageLess(x, y) == x[1] < y[1] \/ (x[1] = y[1] /\ x[2] < y[2])

StrictlyAscending(seq) ==
    \A a, b \in DOMAIN seq : a < b => PageLess(seq[a], seq[b])

\* Every page of the inputs loaded so far.
AllInputPages ==
    UNION {{<<d, p>> : p \in 0..(pageCounts[d] - 1)} : d \in DOMAIN pageCounts}

\* The successfully copied pages of inputs 1..d, input by input, in page order.
RECURSIVE CopiedInOrder(_)
CopiedInOrder(d) ==
    IF d = 0 THEN <<>>
    ELSE CopiedInOrder(d - 1)
         \o SelectSeq(PagesOf(d, 0, pageCounts[d] - 1), LAMBDA x : x \in copiedOk)

\* The merge has consumed every input.
MergeCopied == mergePc \in {"save", "validate"} \/ mergeRes.status = 200

\* The skip warnings a response carries.
WarningsReported(res) == IF "warnings" \in DOMAIN res THEN Len(res.warnings) ELSE 0

\* C1: a successful merge of inputs with page counts p1..pn, k of whose pages
\* were skipped (batch copy and individual retry both failed), returns exactly
\* (sum of p_i) - k pages and reports exactly k skip warnings to the caller.
C1_PageCountAndWarnings ==
    mergeRes.status = 200 =>
        /\ Len(mergeRes.body.pages) = SumSeq(pageCounts) - Cardinality(skippedPages)
        /\ WarningsReported(mergeRes) = Cardinality(skippedPages)

\* The bytes pass every check merge's validation makes.
MergeBytesPass(pdfBytes) ==
    /\ pdfBytes.reload
    /\ pdfBytes.header /\ pdfBytes.eof /\ pdfBytes.catalog /\ pdfBytes.pagesMarker
    /\ Len(pdfBytes.pages) + pdfBytes.countDelta = Len(mergedPdf)

\* C2: in merge and in compress, when the final validation of the produced
\* bytes fails (re-load, structural marker, for merge page-count mismatch) the
\* request ends in failure, and a response never carries bytes that failed it.
C2_NoInvalidBytesReturned ==
    /\ mergeRes.status = 200 => mergeRes.body = savedPdf /\ MergeBytesPass(savedPdf)
    /\ (mergePc = "responded" /\ savedPdf # NoBytes /\ ~MergeBytesPass(savedPdf))
          => mergeRes.status = 500 /\ mergeRes.body = NoBytes
    /\ compRes.status = 200 => compRes.body = bestCompressed /\ bestCompressed.reload
    /\ (compPc = "responded" /\ bestCompressed # NoBytes /\ ~bestCompressed.reload)
          => compRes.status = 500 /\ compRes.body = NoBytes

\* A merge whose saved bytes re-load with a drifting page count has failed.
C2_Witness ==
    /\ mergePc = "responded"
    /\ savedPdf # NoBytes
    /\ savedPdf.reload /\ savedPdf.countDelta = 1
    /\ mergeRes.status = 500

\* C3: the merged page sequence is the concatenation, in input order, of each
\* input's successfully copied pages in their original order: no page twice,
\* none out of order within its document, none before a page of an earlier input.
C3_OutputInInputOrder ==
    /\ StrictlyAscending(mergedPdf \o allCopiedPages)
    /\ MergeCopied => mergedPdf = CopiedInOrder(Len(pageCounts))
    /\ mergeRes.status = 200 => mergeRes.body.pages = mergedPdf

\* A successful merge with a skipped page and an input copied in two batches.
C3_Witness ==
    /\ mergeRes.status = 200
    /\ skippedPages # {}
    /\ \E d \in DOMAIN pageCounts : pageCounts[d] > batchSize(pdfBuffers[d])
    /\ Len(mergedPdf) >= 3

\* C4: on the merge request path no input document is loaded before the
\* aggregate-size check (500 MB) has passed.
C4_NoLoadBeforeSizeCheck == loadCount > 0 => sizeChecked

\* C5: a page whose batch copy and individual retry both fail never aborts the
\* merge: the merge goes on with the rest of the batch, the remaining batches
\* and inputs, and every page whose copy succeeded is in the output.
C5_SkipNeverAborts ==
    /\ [](MergeCopied =>
            /\ copiedOk \subseteq Range(mergedPdf)
            /\ copiedOk \cup skippedPages = AllInputPages
            /\ Len(pageCounts) = Len(pdfBuffers))
    /\ [][skippedPages' # skippedPages =>
            /\ mergePc' \in {"retry", "copy", "load", "save"}
            /\ mergeRes' = mergeRes]_vars

\* A successful merge that skipped a page and copied a later page of the same
\* input and a page of a later input.
C5_Witness ==
    /\ mergeRes.status = 200
    /\ \E s \in skippedPages :
          /\ \E c \in copiedOk : c[1] = s[1] /\ c[2] > s[2]
          /\ \E c \in copiedOk : c[1] > s[1]

\* The outputs saved so far that load again and start with the signature.
ValidOutputs ==
    {saveLog[k].out : k \in {j \in DOMAIN saveLog :
                                /\ saveLog[j].out # Threw
                                /\ saveLog[j].out.reload
                                /\ saveLog[j].out.header}}

\* C6: compress returns the smallest of the outputs of the profiles tried
\* that passes the validity check; when the smallest output is invalid and a
\* larger one is valid, the larger valid one is returned.
C6_SmallestValidReturned ==
    (compPc = "responded" /\ ValidOutputs # {}) =>
        /\ compRes.status = 200
        /\ compRes.body \in ValidOutputs
        /\ \A b \in ValidOutputs : compRes.body.size <= b.size

\* C7: on one document the size of the output compress chooses does not grow
\* along the tiers low, medium, high, maximum.
C7_TiersMonotone ==
    \A k \in 2..Len(tierChosen) : tierChosen[k] <= tierChosen[k - 1]

\* The tier's attempts have all been made, each produced bytes, none valid.
AllAttemptsInvalid ==
    /\ Len(saveLog) >= Len(AttemptsFor(compressionLevel))
    /\ \A k \in 1..Len(AttemptsFor(compressionLevel)) :
          saveLog[k].out # Threw /\ ~saveLog[k].out.reload

\* C8: if every profile tried for the tier produces an output that fails the
\* validity check, the conservative fallback profile is then saved and its
\* output is what is validated and returned.
C8_FallbackWhenAllInvalid ==
    (compPc = "responded" /\ AllAttemptsInvalid) =>
        /\ saveLog[Len(saveLog)].settings = basicSettings
        /\ Len(saveLog) = Len(AttemptsFor(compressionLevel)) + 1
        /\ bestCompressed = saveLog[Len(saveLog)].out

RECURSIVE ConcatIndices(_, _)
ConcatIndices(files, k) ==
    IF k = 0 THEN <<>> ELSE ConcatIndices(files, k - 1) \o files[k].pageIndices

\* C9: for P >= 1 pages and chunk size N >= 1 the 'every' split gives groups
\* that are contiguous, disjoint and ascending, whose concatenation is exactly
\* 0..P-1; each has N pages but the last, which has P mod N (N when that is 0).
C9_EveryExhaustive ==
    (splitRes.status = 200 /\ splitData.splitType = "every" /\ splitData.everyNPages >= 1) =>
        LET N == splitData.everyNPages
            files == splitRes.files
        IN /\ ConcatIndices(files, Len(files)) = [k \in 1..totalPages |-> k - 1]
           /\ \A k \in 1..(Len(files) - 1) : Len(files[k].pageIndices) = N
           /\ Len(files[Len(files)].pageIndices)
                 = (IF totalPages % N = 0 THEN N ELSE totalPages % N)
           /\ \A k \in DOMAIN files : files[k].pageCount = Len(files[k].pageIndices)

\* An 'every' split in several groups whose last group is shorter.
C9_Witness ==
    /\ splitRes.status = 200
    /\ splitData.splitType = "every"
    /\ splitData.everyNPages >= 2
    /\ totalPages % splitData.everyNPages # 0
    /\ Len(splitRes.files) >= 2

\* The requested page numbers that lie in 1..totalPages, in the caller's order.
RequestedInRange ==
    SelectSeq(splitData.pages, LAMBDA v : v \in 1..totalPages)

\* C10: in 'pages' mode the outputs are exactly the requested page numbers in
\* 1..pageCount, in the caller's order, duplicates kept, one single-page
\* output each; numbers <= 0 or > pageCount are dropped, and the request does
\* not fail for them while at least one page remains.
C10_PagesInCallerOrder ==
    (splitData # Malformed /\ splitData.splitType = "pages") =>
        /\ splitRes.status = 200 =>
              /\ Len(splitRes.files) = Len(RequestedInRange)
              /\ \A k \in DOMAIN splitRes.files :
                    /\ splitRes.files[k].pageIndices = <<RequestedInRange[k] - 1>>
                    /\ splitRes.files[k].pageCount = 1
        /\ (splitPc = "responded" /\ RequestedInRange # <<>>)
              => splitRes.status = 200 \/ splitRes.error = "PDF splitting failed"

\* A 'pages' split that kept a page asked for twice and dropped another number.
C10_Witness ==
    /\ splitRes.status = 200
    /\ splitData.splitType = "pages"
    /\ Len(splitData.pages) = 3
    /\ Len(splitRes.files) = 2
    /\ splitRes.files[1].pageIndices = splitRes.files[2].pageIndices

ClampedStart(range) == Max(1, range.start)

ClampedEnd(range) == Min(totalPages, range.end)

\* The ranges handled so far that are not empty after clamping.
KeptRanges ==
    SelectSeq(SubSeq(splitData.ranges, 1, splitI),
              LAMBDA r : ClampedStart(r) <= ClampedEnd(r))

\* C11: in 'ranges' mode each range is clamped to start' = max(1, start) and
\* end' = min(pageCount, end); a range with start' > end' gives no output and
\* every other range gives one output holding exactly the pages start'..end'
\* ascending, every index in [0, pageCount), its pageCount end' - start' + 1.
C11_RangesClamped ==
    (splitData # Malformed /\ splitData.splitType = "ranges") =>
        /\ Len(results) = Len(KeptRanges)
        /\ \A k \in DOMAIN results :
              LET s == ClampedStart(KeptRanges[k])
                  e == ClampedEnd(KeptRanges[k])
              IN /\ results[k].pageIndices = [j \in 1..(e - s + 1) |-> s + j - 2]
                 /\ \A j \in DOMAIN results[k].pageIndices :
                       results[k].pageIndices[j] \in 0..(totalPages - 1)
                 /\ results[k].pageCount = e - s + 1
        /\ splitRes.status = 200 =>
              splitI = Len(splitData.ranges) /\ splitRes.files = results

\* A 'ranges' split that dropped one range and kept another, clamped at both
\* ends to the whole document.
C11_Witness ==
    /\ splitRes.status = 200
    /\ splitData.splitType = "ranges"
    /\ Len(splitData.ranges) = 2
    /\ Len(splitRes.files) = 1
    /\ totalPages >= 2
    /\ \E k \in 1..2 : splitData.ranges[k].start = 0
                       /\ splitData.ranges[k].end = totalPages + 1
    /\ Len(splitRes.files[1].pageIndices) = totalPages

\* The number of page groups the policy of the request resolves to.
ExpectedGroups ==
    CASE splitData.splitType = "pages" -> Len(RequestedInRange)
      [] splitData.splitType = "ranges" ->
            Len(SelectSeq(splitData.ranges, LAMBDA r : ClampedStart(r) <= ClampedEnd(r)))
      [] splitData.splitType = "every" ->
            LET N == Max(1, splitData.everyNPages) IN (totalPages + N - 1) \div N
      [] OTHER -> 0

\* C12: a split whose policy resolves to zero page groups ends in an error;
\* a successful split never carries an empty result list, and an unknown
\* splitType is an error too.
C12_EmptySplitIsError ==
    (splitPc = "responded" /\ splitData # Malformed) =>
        /\ splitRes.status = 200 => Len(splitRes.files) > 0
        /\ splitData.splitType \notin SplitTypes =>
              splitRes.status = 500 /\ splitRes.files = <<>>
        /\ ExpectedGroups = 0 => splitRes.status = 500 /\ splitRes.files = <<>>

\* A 'pages' split all of whose requested numbers are out of range has failed
\* at the end of the loop.
C12_Witness ==
    /\ splitPc = "responded"
    /\ splitData # Malformed
    /\ splitData.splitType = "pages"
    /\ Len(splitData.pages) = 2
    /\ splitI = 2
    /\ RequestedInRange = <<>>
    /\ splitRes.status = 500
    /\ splitRes.error = "No valid pages or ranges specified for splitting"

\* C13: within one split request the output filenames are pairwise distinct
\* across all groups, for every policy, 'pages' lists with repeated numbers
\* and 'ranges' lists with repeated or identically clamped ranges included.
C13_FilenamesDistinct ==
    splitRes.status = 200 =>
        \A a, b \in DOMAIN splitRes.files :
            a # b => splitRes.files[a].filename # splitRes.files[b].filename

\* Whether text holds pattern as a contiguous run of pieces.
Contains(text, pattern) ==
    \E k \in 0..(Len(text) - Len(pattern)) :
        SubSeq(text, k + 1, k + Len(pattern)) = pattern

\* The expansion of text read once from the left, the longest pattern that
\* starts at a position taken there.
RECURSIVE Expand(_, _, _)
Expand(text, x, y) ==
    LET Starts(p) == Len(text) >= Len(p) /\ SubSeq(text, 1, Len(p)) = p
        Rest(n) == Expand(SubSeq(text, n + 1, Len(text)), x, y)
    IN IF text = <<>> THEN <<>>
       ELSE IF Starts(<<"Page ", "(x)", " of ", "(y)">>)
            THEN <<"Page ", x, " of ", y>> \o Rest(4)
       ELSE IF Starts(<<"(x)", " of ", "(y)">>) THEN <<x, " of ", y>> \o Rest(3)
       ELSE IF Starts(<<"Page ", "(x)">>) THEN <<"Page ", x>> \o Rest(2)
       ELSE IF Starts(<<"(x)">>) THEN <<x>> \o Rest(1)
       ELSE IF Starts(<<"(file)">>) THEN <<"Document">> \o Rest(1)
       ELSE <<Head(text)>> \o Rest(1)

\* C14: processTemplate replaces every 'Page (x) of (y)', '(x) of (y)',
\* 'Page (x)' and '(x)' by its expansion, the most specific pattern winning at
\* each position, and '(file)' by 'Document' (the result is the expansion read
\* once from the left, so no occurrence is left half-expanded); the result
\* holds no '(x)' and no '(file)', and a text without placeholders is returned
\* unchanged.
C14_TemplatePrecedence ==
    processedText # NoBytes =>
        LET text == templateArgs.text
            x == toString(templateArgs.pageNum)
            y == toString(templateArgs.totalPages)
        IN /\ processedText.text = Expand(text, x, y)
           /\ ~Contains(processedText.text, <<"(x)">>)
           /\ ~Contains(processedText.text, <<"(file)">>)
           /\ (~Contains(text, <<"(x)">>) /\ ~Contains(text, <<"(file)">>))
                 => processedText.text = text

\* A text with a bare '(x)' in front of a full 'Page (x) of (y)' was expanded.
C14_Witness ==
    /\ processedText # NoBytes
    /\ templateArgs.text = <<"(x)", "Page ", "(x)", " of ", "(y)">>
    /\ templateArgs.pageNum = 1
    /\ templateArgs.totalPages = 2
    /\ processedText.text = <<"1", "Page ", "1", " of ", "2">>

\* The header/footer request ended without a failure of load or save.
HfLibraryWorked ==
    /\ hfPc = "responded"
    /\ headerFooterData # Malformed
    /\ hfRes.error \notin {"PDF processing failed: load", "PDF processing failed: save"}

\* The text operations among the drawings of a page.
TextOps(drawing) == SelectSeq(drawing, LAMBDA d : d.op = "drawText")

\* The slots of the request that hold a text, in drawing order.
FilledSlots == SelectSeq(Slots, LAMBDA slot : headerFooterData[slot] # <<>>)

\* C15: for P pages and every startPage, 0 and negative values included, the
\* annotation draws on exactly the pages with index max(0, startPage-1)..P-1,
\* leaves every earlier page unchanged, and expands each slot's template with
\* the page's 1-based number and P.
C15_StartPageClamped ==
    (HfLibraryWorked /\ headerFooterData.startPage # NotNumeric) =>
        /\ hfRes.status = 200
        /\ \A k \in 1..hfPageCount :
              IF k - 1 >= Max(0, headerFooterData.startPage - 1)
              THEN /\ Len(TextOps(hfRes.body[k])) = Len(FilledSlots)
                   /\ \A n \in DOMAIN FilledSlots :
                         /\ TextOps(hfRes.body[k])[n].slot = FilledSlots[n]
                         /\ TextOps(hfRes.body[k])[n].text
                               = Expand(headerFooterData[FilledSlots[n]],
                                        toString(k), toString(hfPageCount))
              ELSE hfRes.body[k] = <<>>

\* The font size the request asks for when it is a positive number, else 10.
ExpectedTextSize ==
    IF headerFooterData.fontSize # NotNumeric /\ headerFooterData.fontSize > 0
    THEN headerFooterData.fontSize ELSE 10

\* C16: the font size used to draw headers and footers is always positive:
\* 10 for every fontSize that is zero, negative or unparsable, and the input
\* itself for every positive integer input.
C16_FontSizePositive ==
    hfRes.status = 200 =>
        \A k \in 1..hfPageCount : \A n \in DOMAIN TextOps(hfRes.body[k]) :
            /\ TextOps(hfRes.body[k])[n].size > 0
            /\ TextOps(hfRes.body[k])[n].size = ExpectedTextSize

\* The page numbers a request with startPage s and endPage e is to mark.
PagesToMark(s, e, P) == {k \in 1..P : Max(1, s) <= k /\ k <= (IF e = 0 THEN P ELSE Min(P, e))}

\* C17: for P pages a watermark request with startPage s and endPage e marks
\* exactly the pages max(1,s) .. (P if e = 0, else min(P,e)), once each, and
\* no other page.
C17_WatermarkRange ==
    wmRes.status = 200 =>
        \A k \in 1..wmPageCount :
            Len(wmRes.body[k])
               = (IF k \in PagesToMark(watermarkData.startPage, watermarkData.endPage,
                                      wmPageCount)
                  THEN 1 ELSE 0)

\* On 5 pages, endPage 3 marked pages 1-3 only.
C17_Witness ==
    /\ wmRes.status = 200
    /\ wmPageCount = 5
    /\ watermarkData.startPage = 1
    /\ watermarkData.endPage = 3
    /\ {k \in 1..5 : wmRes.body[k] # <<>>} = {1, 2, 3}

\* The watermark request ended without a failure of load or save.
WmLibraryWorked ==
    /\ wmPc = "responded"
    /\ watermarkData # Malformed
    /\ wmRes.error \notin {"Watermark processing failed: load",
                          "Watermark processing failed: save"}

\* C18: the values a watermark is drawn with satisfy font size in 12..100,
\* opacity in 0.0..1.0 and rotation in -90..90; an out-of-range or malformed
\* input never makes the request fail.
C18_WatermarkClamped ==
    /\ WmLibraryWorked => wmRes.status = 200
    /\ wmRes.status = 200 =>
          \A k \in 1..wmPageCount : \A n \in DOMAIN wmRes.body[k] :
              /\ wmRes.body[k][n].size \in 12..100
              /\ wmRes.body[k][n].opacity \in 0..100
              /\ wmRes.body[k][n].rotate \in (-90)..90

\* C19: a rotation given inside -90..90, 0 included, is the rotation the
\* watermark is drawn with; 45 degrees is used only when rotation is absent.
C19_RotationAsGiven ==
    wmRes.status = 200 =>
        \A k \in 1..wmPageCount : \A n \in DOMAIN wmRes.body[k] :
            /\ watermarkData.rotation \in (-90)..90
                  => wmRes.body[k][n].rotate = watermarkData.rotation
            /\ watermarkData.rotation = Absent => wmRes.body[k][n].rotate = 45

\* C20: a configuration field that is not valid JSON makes every operation
\* (annotate, watermark, split, merge, compress) reject the request before
\* any document processing starts: the request is never past its controller
\* and ends with status 400.
C20_MalformedRejected ==
    /\ headerFooterData = Malformed =>
          /\ hfPc \in {"controller", "responded"}
          /\ hfPc = "responded" => hfRes.status = 400
    /\ watermarkData = Malformed =>
          /\ wmPc \in {"controller", "responded"}
          /\ wmPc = "responded" => wmRes.status = 400
    /\ splitData = Malformed =>
          /\ splitPc \in {"controller", "responded"}
          /\ splitPc = "responded" => splitRes.status = 400
    /\ mergeData = Malformed =>
          /\ mergePc \in {"controller", "responded"}
          /\ loadCount = 0
          /\ mergePc = "responded" => mergeRes.status = 400
    /\ compressionData = Malformed =>
          /\ compPc \in {"load", "responded"}
          /\ saveLog = <<>>
          /\ compPc = "responded" => compRes.status = 400

\* The limit of a load in the claims' terms: 30 s or one second per MB of
\* the input, whichever is larger, in ms.
LoadLimitMs(sizeMB) == IF sizeMB > 30 THEN sizeMB * 1000 ELSE 30 * 1000

\* C22: a merge input whose load has not completed within max(30 s, 1 s per
\* MB) ends that load with a timeout error, and from then on the whole merge
\* fails: the response is 500 'too large or complex' and carries no document,
\* whatever was copied from earlier inputs; a load that completes within the
\* limit never raises the timeout.
C22_LoadTimeoutFailsMerge ==
    /\ [][mergePc = "race" /\ mergePc' # "race" =>
            (loadMs > LoadLimitMs(pdfBuffers[mergeI])
                <=> (mergePc' = "catch" /\ mergeError'.message = "loading timeout"))]_vars
    /\ [](mergeError # NoBytes /\ mergeError.message = "loading timeout" =>
            /\ mergePc \in {"catch", "responded"}
            /\ savedPdf = NoBytes
            /\ mergePc = "responded" =>
                  mergeRes = [status |-> 500, error |-> "too large or complex",
                              body |-> NoBytes])

\* The second input timed out after pages of the first were copied.
C22_Witness ==
    /\ mergePc = "responded"
    /\ mergeError # NoBytes
    /\ mergeError.message = "loading timeout"
    /\ mergeI = 2
    /\ mergedPdf # <<>>
    /\ mergeRes.error = "too large or complex"

\* The 0-based position in the output of the first page that came from
\* source d.
FirstOutputIndex(d) ==
    CHOOSE k \in 0..(Len(mergedPdf) - 1) :
        /\ mergedPdf[k + 1][1] = d
        /\ \A j \in 0..(k - 1) : mergedPdf[j + 1][1] # d

\* C27: when addBookmarks is requested and the merge succeeds, the output
\* document has exactly one bookmark per source, at the index of that
\* source's first page in the output (sources of 2, 3 and 4 pages: 0, 2, 5).
C27_BookmarkPerSource ==
    (mergeRes.status = 200 /\ AddBookmarksOf(ParseOrDefaults(mergeData))
        /\ \A d \in DOMAIN pageCounts : \E k \in DOMAIN mergedPdf : mergedPdf[k][1] = d) =>
        mergedOutline = [d \in DOMAIN pageCounts |-> FirstOutputIndex(d)]

\* C25: with coverWithWhite set, every annotated page gets the header and
\* the footer cover rectangle before any text: its first two drawing
\* operations are the two rectangles and every later one is a text, so no
\* rectangle is painted over a header or footer text.
C25_CoverBeforeText ==
    (hfRes.status = 200 /\ headerFooterData.coverWithWhite) =>
        \A k \in 1..hfPageCount :
            hfRes.body[k] # <<>> =>
                /\ Len(hfRes.body[k]) >= 2
                /\ hfRes.body[k][1] = WhiteBackground(headerY)
                /\ hfRes.body[k][2] = WhiteBackground(footerY)
                /\ \A n \in 3..Len(hfRes.body[k]) : hfRes.body[k][n].op = "drawText"
                /\ Len(TextOps(hfRes.body[k])) = Len(FilledSlots)

\* A page with both rectangles and a header and a footer text over them.
C25_Witness ==
    /\ hfRes.status = 200
    /\ headerFooterData.coverWithWhite
    /\ headerFooterData.leftHeader # <<>>
    /\ headerFooterData.rightFooter # <<>>
    /\ \E k \in 1..hfPageCount : Len(hfRes.body[k]) >= 4

\* C26: in 'every' mode the chunk size is at least 1 for every everyNPages,
\* zero, negative and non-numeric values included, so that a split that
\* answers 200 returns groups that are all non-empty and together hold the
\* pages 0..P-1, each once and in order.
C26_EveryChunkAtLeastOne ==
    (splitRes.status = 200 /\ splitData.splitType = "every") =>
        /\ everyN(splitData.everyNPages) >= 1
        /\ \A g \in DOMAIN splitRes.files : splitRes.files[g].pageIndices # <<>>
        /\ ConcatIndices(splitRes.files, Len(splitRes.files))
              = [k \in 1..totalPages |-> k - 1]

\* The failure the checks give when made in the order header, end-of-file
\* marker, catalog and page tree, re-load, page count.
FirstFailureInOrder(pdfBytes, expectedPages) ==
    IF validatePDFStructure(pdfBytes) # "ok" THEN validatePDFStructure(pdfBytes)
    ELSE IF ~pdfBytes.reload THEN "load"
    ELSE IF Len(pdfBytes.pages) + pdfBytes.countDelta # expectedPages
         THEN "Page count mismatch"
    ELSE "ok"

\* C23: the validation of merged bytes applies its checks in the order (a)
\* header signature in the first 8 bytes, (b) end-of-file marker in the
\* trailing 1 KB, (c) catalog and page-tree markers, (d) re-load and
\* page-count equality: the failure reported for bytes that fail several
\* checks is that of the earliest check in this order.
C23_ValidationOrder ==
    (valResult # NoBytes /\ valResult.by = "mergePDFs") =>
        valResult.error = FirstFailureInOrder(Checked(valBytes, valReload), Len(ValPages))

\* The bytes without their last 1 KB ('slice(0, -1024)').
Truncated(blocks) ==
    SubSeq(blocks, 1, Len(blocks) - (TrailerBytes \div BlockBytes))

\* C24: for every byte sequence that passes validation, the sequence without
\* its last 1 KB fails validation, and fails it at the end-of-file marker
\* check.
C24_TruncatedFailsTrailer ==
    (valResult # NoBytes /\ valResult.error = "ok") =>
        validatePDFStructure(Checked(Truncated(valBytes), valReload))
            = "Invalid PDF trailer - missing %%EOF"

\* The source document's page indices in their original order.
SourcePages == [k \in 1..compPageCount |-> k - 1]

\* C29 as stated: with tier 'maximum' every save attempt of compress is
\* applied to a freshly rebuilt document holding exactly the source's pages
\* in their original order, and none to the originally loaded document.
C29_MaximumAlwaysRebuilt ==
    compressionLevel = "maximum" =>
        \A k \in DOMAIN saveLog :
            /\ saveLog[k].doc = "fresh"
            /\ freshPages = SourcePages

\* C29 amended: with tier 'maximum' all save attempts of one compress are
\* applied to one document; it is the freshly rebuilt one, holding exactly
\* the source's pages in their original order, when the rebuild succeeded,
\* and the originally loaded document only when the rebuild threw (no fresh
\* document holds pages then).
C29_MaximumRebuiltOrFallsBack ==
    compressionLevel = "maximum" =>
        /\ \A k \in DOMAIN saveLog : saveLog[k].doc = finalDoc
        /\ finalDoc = "fresh" => freshPages = SourcePages /\ compPageCount >= 1
        /\ finalDoc = "pdfDoc" => freshPages = <<>>

\* A maximum-tier compress of a two-page document answered from the rebuilt
\* document after several attempts.
C29_Witness ==
    /\ compressionLevel = "maximum"
    /\ compRes.status = 200
    /\ finalDoc = "fresh"
    /\ compPageCount = 2
    /\ Len(saveLog) >= 2
    /\ \A k \in DOMAIN saveLog : saveLog[k].doc = "fresh"

\* C28: the compression estimate is bounded and ordered for every input:
\* the base percentage lies in 5..40, the reduction percentages satisfy
\* 0 <= low <= medium <= high <= maximum <= 100, every tier's projected size
\* lies in 0..originalSize and does not grow from low to maximum; and a
\* preview changes neither the input bytes nor any state of a compress
\* request for the same file.
C28_EstimateBoundedOrdered ==
    /\ []((estInfo # NoBytes /\ "originalSize" \in DOMAIN estInfo) =>
            LET pct == estInfo.baselineCompression
                size == estInfo.estimatedSize
            IN  /\ estInfo = getCompressionInfo(estBuffer)
                /\ baseCompression(estBuffer) \in 5..40
                /\ pct.high \in 5..40
                /\ 0 <= pct.low /\ pct.low <= pct.medium /\ pct.medium <= pct.high
                /\ pct.high <= pct.maximum /\ pct.maximum <= 100
                /\ \A level \in CompressionLevels : size[level] \in 0..estInfo.originalSize
                /\ size.low >= size.medium /\ size.medium >= size.high
                /\ size.high >= size.maximum)
    /\ [][estInfo' # estInfo => UNCHANGED <<estBuffer, compVars>>]_vars

\* A preview whose base percentage was cut to 40, taken while the compress
\* request for the file was under way, which then answered 200.
C28_Witness ==
    /\ estInfo # NoBytes
    /\ "originalSize" \in DOMAIN estInfo
    /\ rawBaseCompression(estBuffer) > 40
    /\ estInfo.baselineCompression.maximum = 60
    /\ estInfo.estimatedSize.low > estInfo.estimatedSize.maximum
    /\ compRes.status = 200

\* C30: in MergeEditor, once every outstanding preview request has
\* completed, previewData is null when fewer than two files are selected and
\* otherwise is the response for the current selectedFiles in their current
\* order (or null when that request failed): the response to an earlier
\* request never replaces that of a later one.
C30_PreviewMatchesSelection ==
    pending = {} =>
        /\ Len(selectedFiles) < 2 => previewData = NoBytes
        /\ previewData # NoBytes => previewData = PreviewOf(selectedFiles)

\* The pages of a merge of files served alone: those of the uploads whose
\* pages can be copied, upload by upload.
RECURSIVE PagesAlone(_, _)
PagesAlone(files, k) ==
    IF k = 0 THEN <<>>
    ELSE PagesAlone(files, k - 1)
         \o (IF files[k].copies THEN [p \in 1..files[k].pages |-> <<k, p - 1>>] ELSE <<>>)

\* The response a merge request for files gets when it is served alone.
OutcomeAlone(files) ==
    IF \E k \in DOMAIN files : ~files[k].loads
    THEN [status |-> 500, error |-> "PDF merge failed", body |-> NoBytes]
    ELSE [status |-> 200, error |-> "", body |-> PagesAlone(files, Len(files))]

====
